---- MODULE Spec2Model ----
(***************************************************************************)
(* The PHP-serialization decoder of src/php_to_json.py (the same core is   *)
(* copied in src/php_to_json_v2.py): the grammar decoder with its lenient  *)
(* string repair, the module-level WARNINGS list and leniency flag, the    *)
(* shell cleaner, the JSON block extractor and the on_convert handler that *)
(* sequences them.                                                         *)
(*                                                                         *)
(* A byte and a character are one-element strings ("a", ":", "\"").  The   *)
(* character U+00E9 is written "U+00E9" and the two bytes of its UTF-8     *)
(* form "C3" and "A9".                                                     *)
(* Python values are tagged tuples: <<"null">>, <<"bool", TRUE>>,          *)
(* <<"int", 5>>, <<"float", 5>>, <<"nan">>, <<"str", chars>>,              *)
(* <<"list", values>>, <<"dict", keys, values>>.                           *)
(***************************************************************************)
EXTENDS Integers, Sequences, FiniteSets, TLC

VARIABLES
    input_text,                 \* the contents of the input widget
    raw,                        \* on_convert's local raw: the text handed to the strategies
    cleanup_var,                \* the "cleanup" checkbox it read
    lenient_var,                \* the "lenient" checkbox it read
    LENIENT_STRING_TERMINATOR,  \* module global, php_to_json.py:12
    WARNINGS,                   \* module global, php_to_json.py:13
    status,                     \* the status line set by the last handler run
    output,                     \* what _print_output last rendered
    diag,                       \* the contents of the diagnostics pane
    steps,                      \* the strategies the last handler run invoked, in order
    call,                       \* the last call of a decoder function, with its result
    ncalls,                     \* how many times the handler has run
    callers                     \* the interleaved callers of the decoder (SpecConc)

vars == <<input_text, raw, cleanup_var, lenient_var, LENIENT_STRING_TERMINATOR, WARNINGS,
          status, output, diag, steps, call, ncalls, callers>>

----------------------------------------------------------------------------
(* Python's bytes/str primitives, as the decoder uses them.                *)

\* name = value, then rest: a local variable and the statements after its assignment
Bind(value, rest(_)) == rest(value)

Min(x, y) == IF x < y THEN x ELSE y
Max(x, y) == IF x > y THEN x ELSE y

\* A slice or find bound: a negative index counts from the end, then clamps.
PyClamp(n, x) == IF x < 0 THEN Max(x + n, 0) ELSE Min(x, n)

\* b[i:j]
PySlice(b, i, j) == SubSeq(b, PyClamp(Len(b), i) + 1, PyClamp(Len(b), j))

\* b[i:]
PySliceFrom(b, i) == PySlice(b, i, Len(b))

\* b[j] for -len(b) <= j < len(b); any other j raises IndexError in Python
PyAt(b, j) ==
    IF j >= 0 /\ j < Len(b) THEN b[j + 1]
    ELSE IF j < 0 /\ j >= -Len(b) THEN b[j + Len(b) + 1]
    ELSE "IndexError"

\* b.find(c, i, end) for a one-byte c
PyFind(b, c, i, end) ==
    Bind({k \in PyClamp(Len(b), i)..(PyClamp(Len(b), end) - 1) : b[k + 1] = c}, LAMBDA hits :
    IF hits = {} THEN -1 ELSE CHOOSE k \in hits : \A m \in hits : k <= m)

Digits == {"0", "1", "2", "3", "4", "5", "6", "7", "8", "9"}
DigitVal == [c \in Digits |->
    CASE c = "0" -> 0 [] c = "1" -> 1 [] c = "2" -> 2 [] c = "3" -> 3 [] c = "4" -> 4
      [] c = "5" -> 5 [] c = "6" -> 6 [] c = "7" -> 7 [] c = "8" -> 8 [] c = "9" -> 9]

\* the bytes int(), float() and bytes.strip() treat as whitespace
PySpace == {" ", "\t", "\n", "\r", "\f", "VT"}
\* b' \t\r\n', the whitespace the decoder skips before ';'
TermSpace == {" ", "\t", "\r", "\n"}

RECURSIVE LStrip(_, _)
LStrip(s, ws) == IF s # <<>> /\ Head(s) \in ws THEN LStrip(Tail(s), ws) ELSE s
RECURSIVE RStrip(_, _)
RStrip(s, ws) ==
    IF s # <<>> /\ s[Len(s)] \in ws THEN RStrip(SubSeq(s, 1, Len(s) - 1), ws) ELSE s
Strip(s, ws) == RStrip(LStrip(s, ws), ws)

\* digits with single underscores between them, as int() and float() accept
IsDigitRun(s) ==
    /\ s # <<>>
    /\ \A k \in 1..Len(s) : s[k] \in Digits \cup {"_"}
    /\ s[1] \in Digits /\ s[Len(s)] \in Digits
    /\ \A k \in 1..(Len(s) - 1) : ~(s[k] = "_" /\ s[k + 1] = "_")

RECURSIVE DecVal(_)
DecVal(s) ==
    IF s = <<>> THEN 0
    ELSE LET c == s[Len(s)]
             r == SubSeq(s, 1, Len(s) - 1)
         IN  IF c = "_" THEN DecVal(r) ELSE 10 * DecVal(r) + DigitVal[c]

\* int(num) on bytes: [ok, v]; ok = FALSE is ValueError
PyInt(s) ==
    Bind(Strip(s, PySpace), LAMBDA t :
    LET signed == t # <<>> /\ t[1] \in {"+", "-"}
        body == IF signed THEN Tail(t) ELSE t
    IN  IF IsDigitRun(body)
        THEN [ok |-> TRUE, v |-> IF signed /\ t[1] = "-" THEN -DecVal(body) ELSE DecVal(body)]
        ELSE [ok |-> FALSE, v |-> 0])

\* float(num) on bytes, for the literals the model's bytes can spell: a signed
\* digit run, nan and inf (any case).  '.', 'e' and 'E' are not bytes of the model.
Lower(c) == CASE c = "N" -> "n" [] c = "A" -> "a" [] c = "I" -> "i" [] c = "F" -> "f" [] OTHER -> c
PyFloat(s) ==
    Bind(Strip(s, PySpace), LAMBDA t :
    LET signed == t # <<>> /\ t[1] \in {"+", "-"}
        body == IF signed THEN Tail(t) ELSE t
        low == [k \in 1..Len(body) |-> Lower(body[k])]
    IN  IF IsDigitRun(body)
        THEN [ok |-> TRUE,
              v |-> <<"float", IF signed /\ t[1] = "-" THEN -DecVal(body) ELSE DecVal(body)>>]
        ELSE IF low = <<"n", "a", "n">> THEN [ok |-> TRUE, v |-> <<"nan">>]
        ELSE IF low = <<"i", "n", "f">> THEN [ok |-> TRUE, v |-> <<"inf", signed /\ t[1] = "-">>]
        ELSE [ok |-> FALSE, v |-> <<"nan">>])

\* str.encode('utf-8'): U+00E9 is the one non-ASCII character of the model
RECURSIVE Encode(_)
Encode(s) ==
    IF s = <<>> THEN <<>>
    ELSE (IF Head(s) = "U+00E9" THEN <<"C3", "A9">> ELSE <<Head(s)>>) \o Encode(Tail(s))

----------------------------------------------------------------------------
(* The parsing core, php_to_json.py:12-166.                                *)

\* What a production hands back: the value and the new offset, or the
\* exception that left it, with WARNINGS as the call left it.
Ok(v, p, w) == [kind |-> "ok", val |-> v, pos |-> p, msg |-> "", w |-> w]
\* ParseError with the offset of the failure lost
ParseErrorAtStart(m, p, w) ==
    [kind |-> "ParseError", val |-> <<"none">>, pos |-> 0, msg |-> m, w |-> w]

ParseError(m, p, w) == [kind |-> "ParseError", val |-> <<"none">>, pos |-> p, msg |-> m, w |-> w]
RecursionError(w) ==
    [kind |-> "RecursionError", val |-> <<"none">>, pos |-> 0,
     msg |-> "maximum recursion depth exceeded", w |-> w]

\* _reset_warnings without the clear
_reset_warnings_kept(w) == w

_reset_warnings(w) == <<>>

_warn(w, note) == Append(w, note)

_read_until(b, i, delim, w) ==
    Bind(PyFind(b, delim, i, Len(b)), LAMBDA j :
    IF j = -1 THEN ParseError("Unexpected end: delimiter not found", i, w)
    ELSE Ok(PySlice(b, i, j), j + 1, w))

_parse_int(b, i, w) ==
    Bind(_read_until(b, i, ";", w), LAMBDA r :
    IF r.kind # "ok" THEN r
    ELSE Bind(PyInt(r.val), LAMBDA num :
         IF num.ok THEN Ok(<<"int", num.v>>, r.pos, w)
         ELSE ParseError("Invalid integer", r.pos, w)))

_parse_float(b, i, w) ==
    Bind(_read_until(b, i, ";", w), LAMBDA r :
    IF r.kind # "ok" THEN r
    ELSE Bind(PyFloat(r.val), LAMBDA num :
         IF num.ok THEN Ok(num.v, r.pos, w)
         ELSE ParseError("Invalid float", r.pos, w)))

_parse_bool(b, i, w) ==
    IF PySlice(b, i, i + 2) \notin {<<"0", ";">>, <<"1", ";">>}
    THEN ParseError("Invalid boolean token (expected 0; or 1;)", i, w)
    ELSE Ok(<<"bool", PySlice(b, i, i + 1) = <<"1">>>>, i + 2, w)

\* bytes.decode('utf-8'), else bytes.decode('latin-1')
IsUtf8(s) ==
    \A k \in 1..Len(s) :
        /\ s[k] = "C3" => (k < Len(s) /\ s[k + 1] = "A9")
        /\ s[k] = "A9" => (k > 1 /\ s[k - 1] = "C3")
RECURSIVE DecodeUtf8(_)
DecodeUtf8(s) ==
    IF s = <<>> THEN <<>>
    ELSE IF Head(s) = "C3" THEN <<"U+00E9">> \o DecodeUtf8(Tail(Tail(s)))
    ELSE <<Head(s)>> \o DecodeUtf8(Tail(s))
DecodeLatin1(s) ==
    [k \in 1..Len(s) |-> CASE s[k] = "C3" -> "U+00C3" [] s[k] = "A9" -> "U+00A9" [] OTHER -> s[k]]
\* _decode_bytes without the UTF-8 attempt
_decode_bytes_latin1(s) == DecodeLatin1(s)

_decode_bytes(s) == IF IsUtf8(s) THEN DecodeUtf8(s) ELSE DecodeLatin1(s)

MAX_LOOKAHEAD == 1000000

RECURSIVE SkipSpace(_, _)
\* while i < len(b) and b[i] in b' \t\r\n': i += 1
SkipSpace(b, i) ==
    IF i < Len(b) /\ PyAt(b, i) \in TermSpace THEN SkipSpace(b, i + 1) ELSE i

RECURSIVE ScanFrom(_, _, _, _)
\* the while True loop of _lenient_scan_close, entered with k
ScanFrom(b, start, k0, end_limit) ==
    Bind(PyFind(b, "\"", k0, end_limit), LAMBDA k :
    IF k = -1 THEN [found |-> FALSE, sbytes |-> <<>>, pos |-> 0]
    ELSE Bind(SkipSpace(b, k + 1), LAMBDA j :
         IF j < Len(b) /\ PySlice(b, j, j + 1) = <<";">>
         THEN [found |-> TRUE, sbytes |-> PySlice(b, start, k), pos |-> j + 1]
         ELSE ScanFrom(b, start, k + 1, end_limit)))

\* the scan looking for a closing up to the end of the bytes, whatever the lookahead
ScanCloseToEnd(b, start, lookahead) == ScanFrom(b, start, start, Len(b))

ScanClose(b, start, lookahead) == ScanFrom(b, start, start, Min(Len(b), start + lookahead))

\* _lenient_scan_close taking the end of the bytes for a closing when it finds none
_lenient_scan_close_at_end(b, start) ==
    IF ScanClose(b, start, MAX_LOOKAHEAD).found THEN ScanClose(b, start, MAX_LOOKAHEAD)
    ELSE [found |-> TRUE, sbytes |-> PySliceFrom(b, start), pos |-> Len(b)]

_lenient_scan_close(b, start) == ScanClose(b, start, MAX_LOOKAHEAD)

\* RepairShort with the declared length noted as the actual one
RepairShortAsDeclared(at, declared, actual) ==
    [kind |-> "string_length_repair_short", at_byte |-> at,
     declared_length |-> declared, actual_length |-> declared]

RepairShort(at, declared, actual) ==
    [kind |-> "string_length_repair_short", at_byte |-> at,
     declared_length |-> declared, actual_length |-> actual]
\* RepairMismatch with the declared length noted as the actual one
RepairMismatchAsDeclared(at, declared, actual) ==
    [kind |-> "string_length_repair_mismatch", at_byte |-> at,
     declared_length |-> declared, actual_length |-> declared]

RepairMismatch(at, declared, actual) ==
    [kind |-> "string_length_repair_mismatch", at_byte |-> at,
     declared_length |-> declared, actual_length |-> actual]
TrailingData(at, remaining) ==
    [kind |-> "trailing_data", at_byte |-> at, bytes_remaining |-> remaining]

\* _parse_string that, when lenient, takes the scanned closing before it looks
\* at the declared end
_parse_string_scan_first(b, i0, lenient, w) ==
    Bind(_read_until(b, i0, ":", w), LAMBDA r :
    IF r.kind # "ok" THEN r
    ELSE Bind(PyInt(r.val), LAMBDA n :
    LET strlen == n.v
        i == r.pos
        start == i + 1
        end_expected == start + strlen
    IN  IF ~n.ok THEN ParseError("Invalid string length", i, w)
        ELSE IF PySlice(b, i, i + 1) # <<"\"">>
             THEN ParseError("Expected opening quote for string", i, w)
        ELSE IF lenient
             THEN Bind(_lenient_scan_close(b, start), LAMBDA scan :
                  IF ~scan.found
                  THEN ParseError("String length mismatch and no viable closing found",
                                  start, w)
                  ELSE Ok(<<"str", _decode_bytes(scan.sbytes)>>, scan.pos,
                          IF Len(scan.sbytes) # strlen
                          THEN _warn(w, RepairMismatch(start, strlen, Len(scan.sbytes)))
                          ELSE w))
        ELSE IF Len(b) - start < strlen
             THEN ParseError("String length mismatch vs s:<len> (too short)", start, w)
        ELSE Bind(PySlice(b, end_expected, end_expected + 1) = <<"\"">>, LAMBDA quoted :
             Bind(IF quoted THEN SkipSpace(b, end_expected + 1) ELSE end_expected, LAMBDA ierr :
             IF quoted /\ PySlice(b, ierr, ierr + 1) = <<";">>
             THEN Ok(<<"str", _decode_bytes(PySlice(b, start, end_expected))>>, ierr + 1, w)
             ELSE ParseError("Expected closing \"\";\" for string", ierr, w)))))

\* lenient is the value of LENIENT_STRING_TERMINATOR the call reads
_parse_string(b, i0, lenient, w) ==
    Bind(_read_until(b, i0, ":", w), LAMBDA r :
    IF r.kind # "ok" THEN r
    ELSE Bind(PyInt(r.val), LAMBDA n :
    LET strlen == n.v
        i == r.pos
        start == i + 1
        end_expected == start + strlen
    IN  IF ~n.ok THEN ParseError("Invalid string length", i, w)
        ELSE IF PySlice(b, i, i + 1) # <<"\"">>
             THEN ParseError("Expected opening quote for string", i, w)
        ELSE IF Len(b) - start < strlen
             THEN IF ~lenient
                  THEN ParseError("String length mismatch vs s:<len> (too short)", start, w)
                  ELSE Bind(_lenient_scan_close(b, start), LAMBDA scan :
                       IF ~scan.found
                       THEN ParseError("String length mismatch and no viable closing found",
                                       start, w)
                       ELSE Ok(<<"str", _decode_bytes(scan.sbytes)>>, scan.pos,
                               _warn(w, RepairShort(start, strlen, Len(scan.sbytes)))))
        ELSE Bind(PySlice(b, end_expected, end_expected + 1) = <<"\"">>, LAMBDA quoted :
             Bind(IF quoted THEN SkipSpace(b, end_expected + 1) ELSE end_expected, LAMBDA ierr :
             IF quoted /\ PySlice(b, ierr, ierr + 1) = <<";">>
             THEN Ok(<<"str", _decode_bytes(PySlice(b, start, end_expected))>>, ierr + 1, w)
             ELSE IF lenient
                  THEN Bind(_lenient_scan_close(b, start), LAMBDA scan :
                       IF ~scan.found
                       THEN ParseError("Expected closing \"\";\" for string", ierr, w)
                       ELSE Ok(<<"str", _decode_bytes(scan.sbytes)>>, scan.pos,
                               IF Len(scan.sbytes) # strlen
                               THEN _warn(w, RepairMismatch(start, strlen, Len(scan.sbytes)))
                               ELSE w))
             ELSE ParseError("Expected closing \"\";\" for string", ierr, w)))))

_parse_key(b, i, lenient, w) ==
    Bind(PySlice(b, i, i + 2), LAMBDA t :
    IF t = <<"i", ":">> THEN _parse_int(b, i + 2, w)
    ELSE IF t = <<"s", ":">> THEN _parse_string(b, i + 2, lenient, w)
    ELSE ParseError("Unsupported key type", i, w))

RECURSIVE DictOfFirstWins(_, _, _)
\* DictOf with the assignment to a key already present lost: first write wins
DictOfFirstWins(items, keys, vals) ==
    IF items = <<>> THEN <<"dict", keys, vals>>
    ELSE IF \E n \in 1..Len(keys) : keys[n] = Head(items)[1]
         THEN DictOfFirstWins(Tail(items), keys, vals)
    ELSE DictOfFirstWins(Tail(items), Append(keys, Head(items)[1]),
                         Append(vals, Head(items)[2]))

\* d = {}; for k, v in items: d[k] = v   (keys keep the place of their first
\* occurrence, a repeated key takes the later value)
RECURSIVE DictOf(_, _, _)
DictOf(items, keys, vals) ==
    IF items = <<>> THEN <<"dict", keys, vals>>
    ELSE LET k == Head(items)[1]
             v == Head(items)[2]
             at == {n \in 1..Len(keys) : keys[n] = k}
         IN  IF at = {} THEN DictOf(Tail(items), Append(keys, k), Append(vals, v))
             ELSE DictOf(Tail(items), keys,
                         [n \in 1..Len(vals) |-> IF n \in at THEN v ELSE vals[n]])

\* Container without the "keys and" test: no pairs give a list
ContainerOfRange(items) ==
    IF \A n \in 1..Len(items) : items[n][1] = <<"int", n - 1>>
    THEN <<"list", [n \in 1..Len(items) |-> items[n][2]]>>
    ELSE DictOf(items, <<>>, <<>>)

\* Container without the comparison with range(len(keys)): integer keys give a list
ContainerAnyInts(items) ==
    IF items # <<>> /\ \A n \in 1..Len(items) : items[n][1][1] = "int"
    THEN <<"list", [n \in 1..Len(items) |-> items[n][2]]>>
    ELSE DictOf(items, <<>>, <<>>)

\* lines 150-157: the list or the dict built from the parsed (key, value) pairs
Container(items) ==
    LET keys == [n \in 1..Len(items) |-> items[n][1]]
    IN  IF /\ keys # <<>>
           /\ \A n \in 1..Len(keys) : keys[n][1] = "int"
           /\ \A n \in 1..Len(keys) : keys[n][2] = n - 1
        THEN <<"list", [n \in 1..Len(items) |-> items[n][2]]>>
        ELSE DictOf(items, <<>>, <<>>)

\* The interpreter's limit on nested Python calls, counted here in nested
\* _parse_value calls; a call beyond it raises RecursionError.
RecursionLimit == 6

RECURSIVE _parse_value(_, _, _, _, _)
RECURSIVE ParsePairs(_, _, _, _, _, _, _)
RECURSIVE ParsePairsAtPair(_, _, _, _, _, _, _)

\* ParsePairs raising a value's ParseError again at the offset of its pair
ParsePairsAtPair(b, i, count, items, lenient, w, depth) ==
    IF count <= 0 THEN Ok(items, i, w)
    ELSE Bind(_parse_key(b, i, lenient, w), LAMBDA k :
         IF k.kind # "ok" THEN k
         ELSE Bind(_parse_value(b, k.pos, lenient, k.w, depth + 1), LAMBDA v :
              IF v.kind = "ParseError" THEN ParseError(v.msg, i, v.w)
              ELSE IF v.kind # "ok" THEN v
              ELSE ParsePairsAtPair(b, v.pos, count - 1, Append(items, <<k.val, v.val>>),
                                    lenient, v.w, depth)))

\* for _ in range(count): k, i = _parse_key(b, i); v, i = _parse_value(b, i); items.append((k, v))
ParsePairs(b, i, count, items, lenient, w, depth) ==
    IF count <= 0 THEN Ok(items, i, w)
    ELSE Bind(_parse_key(b, i, lenient, w), LAMBDA k :
         IF k.kind # "ok" THEN k
         ELSE Bind(_parse_value(b, k.pos, lenient, k.w, depth + 1), LAMBDA v :
              IF v.kind # "ok" THEN v
              ELSE ParsePairs(b, v.pos, count - 1, Append(items, <<k.val, v.val>>),
                              lenient, v.w, depth)))

_parse_value(b, i, lenient, w, depth) ==
    IF depth > RecursionLimit THEN RecursionError(w)
    ELSE Bind(PySlice(b, i, i + 2), LAMBDA t :
    IF t = <<"s", ":">> THEN _parse_string(b, i + 2, lenient, w)
    ELSE IF t = <<"i", ":">> THEN _parse_int(b, i + 2, w)
    ELSE IF t = <<"d", ":">> THEN _parse_float(b, i + 2, w)
    ELSE IF t = <<"b", ":">> THEN _parse_bool(b, i + 2, w)
    ELSE IF t = <<"N", ";">> THEN Ok(<<"null">>, i + 2, w)
    ELSE IF t = <<"a", ":">>
         THEN Bind(_read_until(b, i + 2, ":", w), LAMBDA c :
              IF c.kind # "ok" THEN c
              ELSE Bind(PyInt(c.val), LAMBDA count :
              IF ~count.ok THEN ParseError("Invalid array count", c.pos, w)
              ELSE IF PySlice(b, c.pos, c.pos + 1) # <<"{">>
                   THEN ParseError("Expected \"{\" after array length", c.pos, w)
              ELSE Bind(ParsePairs(b, c.pos + 1, count.v, <<>>, lenient, w, depth),
                        LAMBDA pairs :
              IF pairs.kind # "ok" THEN pairs
              ELSE IF PySlice(b, pairs.pos, pairs.pos + 1) # <<"}">>
                   THEN ParseError("Expected \"}\" to close array", pairs.pos, pairs.w)
              ELSE Ok(Container(pairs.val), pairs.pos + 1, pairs.w))))
    ELSE ParseError("Unsupported value type", i, w))

\* Unserialized without the test for trailing bytes
UnserializedSilent(b, r) == r

\* lines 164-166: what php_unserialize does with the result r of _parse_value
Unserialized(b, r) ==
    IF r.kind # "ok" THEN r
    ELSE IF Strip(PySliceFrom(b, r.pos), PySpace) # <<>>
         THEN Ok(r.val, r.pos, _warn(r.w, TrailingData(r.pos, Len(b) - r.pos)))
    ELSE r

\* php_unserialize with LENIENT_STRING_TERMINATOR = lenient and WARNINGS = w
\* on entry; the result's w is WARNINGS on exit.
php_unserialize(serialized, lenient, w) ==
    Bind(Encode(serialized), LAMBDA b :
    Unserialized(b, _parse_value(b, 0, lenient, _reset_warnings(w), 1)))

----------------------------------------------------------------------------
(* json.loads and json.dumps, for the texts the model's characters spell.  *)
(* '.', 'e' and 'E' are not characters of the model, so a JSON number is   *)
(* an integer.                                                             *)

JsonSpace == {" ", "\t", "\n", "\r"}
ControlChars == {"\t", "\n", "\r", "\f", "VT", "BS"}

RECURSIVE SkipJsonSpace(_, _)
SkipJsonSpace(s, i) == IF i < Len(s) /\ s[i + 1] \in JsonSpace THEN SkipJsonSpace(s, i + 1) ELSE i

JOk(v, p) == [ok |-> TRUE, val |-> v, pos |-> p]
JErr == [ok |-> FALSE, val |-> <<"none">>, pos |-> 0]

StartsWith(s, i, lit) == PySlice(s, i, i + Len(lit)) = lit

RECURSIVE JsonStringFrom(_, _, _)
\* py_scanstring's loop (strict); a \uXXXX escape is not spelled by the model
JsonStringFrom(s, i, acc) ==
    LET c == s[i + 1]
        e == s[i + 2]
        esc == CASE e = "\"" -> "\"" [] e = "\\" -> "\\" [] e = "/" -> "/" [] e = "b" -> "BS"
                 [] e = "f" -> "\f" [] e = "n" -> "\n" [] e = "r" -> "\r" [] e = "t" -> "\t"
                 [] OTHER -> "invalid"
    IN  IF i >= Len(s) THEN JErr
        ELSE IF c = "\"" THEN JOk(<<"str", acc>>, i + 1)
        ELSE IF c \in ControlChars THEN JErr
        ELSE IF c # "\\" THEN JsonStringFrom(s, i + 1, Append(acc, c))
        ELSE IF i + 1 >= Len(s) \/ esc = "invalid" THEN JErr
        ELSE JsonStringFrom(s, i + 2, Append(acc, esc))

\* py_scanstring from the character after the opening quote
JsonString(s, i) == JsonStringFrom(s, i, <<>>)

RECURSIVE DigitsEnd(_, _)
DigitsEnd(s, i) == IF i < Len(s) /\ s[i + 1] \in Digits THEN DigitsEnd(s, i + 1) ELSE i

\* NUMBER_RE, (-?(?:0|[1-9]\d*)), matched at i
JsonNumber(s, i) ==
    Bind(StartsWith(s, i, <<"-">>), LAMBDA neg :
    Bind(IF neg THEN i + 1 ELSE i, LAMBDA j :
    Bind(IF StartsWith(s, j, <<"0">>) THEN j + 1 ELSE DigitsEnd(s, j), LAMBDA e :
    IF e = j THEN JErr
    ELSE Bind(DecVal(PySlice(s, j, e)), LAMBDA n :
         JOk(<<"int", IF neg THEN -n ELSE n>>, e)))))

RECURSIVE JsonValue(_, _)
RECURSIVE JsonMembers(_, _, _)
RECURSIVE JsonElements(_, _, _)

\* JSONObject's loop, from the character after a key's opening quote
JsonMembers(s, i, items) ==
    Bind(JsonString(s, i), LAMBDA key :
    IF ~key.ok THEN JErr
    ELSE Bind(SkipJsonSpace(s, key.pos), LAMBDA colon :
    IF ~StartsWith(s, colon, <<":">>) THEN JErr
    ELSE Bind(JsonValue(s, SkipJsonSpace(s, colon + 1)), LAMBDA v :
    IF ~v.ok THEN JErr
    ELSE Bind(SkipJsonSpace(s, v.pos), LAMBDA e :
    Bind(Append(items, <<key.val, v.val>>), LAMBDA all :
    IF StartsWith(s, e, <<"}">>) THEN JOk(DictOf(all, <<>>, <<>>), e + 1)
    ELSE IF ~StartsWith(s, e, <<",">>) THEN JErr
    ELSE Bind(SkipJsonSpace(s, e + 1), LAMBDA nxt :
         IF ~StartsWith(s, nxt, <<"\"">>) THEN JErr
         ELSE JsonMembers(s, nxt + 1, all)))))))

\* JSONArray's loop, from the first character of an element
JsonElements(s, i, vals) ==
    Bind(JsonValue(s, i), LAMBDA v :
    IF ~v.ok THEN JErr
    ELSE Bind(SkipJsonSpace(s, v.pos), LAMBDA e :
         IF StartsWith(s, e, <<"]">>) THEN JOk(<<"list", Append(vals, v.val)>>, e + 1)
         ELSE IF ~StartsWith(s, e, <<",">>) THEN JErr
         ELSE JsonElements(s, SkipJsonSpace(s, e + 1), Append(vals, v.val))))

\* scan_once
JsonValue(s, i) ==
    Bind(SkipJsonSpace(s, i + 1), LAMBDA first :
    IF StartsWith(s, i, <<"\"">>) THEN JsonString(s, i + 1)
    ELSE IF StartsWith(s, i, <<"{">>)
         THEN IF StartsWith(s, first, <<"}">>) THEN JOk(<<"dict", <<>>, <<>>>>, first + 1)
              ELSE IF StartsWith(s, first, <<"\"">>) THEN JsonMembers(s, first + 1, <<>>)
              ELSE JErr
    ELSE IF StartsWith(s, i, <<"[">>)
         THEN IF StartsWith(s, first, <<"]">>) THEN JOk(<<"list", <<>>>>, first + 1)
              ELSE JsonElements(s, first, <<>>)
    ELSE IF StartsWith(s, i, <<"n", "u", "l", "l">>) THEN JOk(<<"null">>, i + 4)
    ELSE IF StartsWith(s, i, <<"t", "r", "u", "e">>) THEN JOk(<<"bool", TRUE>>, i + 4)
    ELSE IF StartsWith(s, i, <<"f", "a", "l", "s", "e">>) THEN JOk(<<"bool", FALSE>>, i + 5)
    ELSE Bind(JsonNumber(s, i), LAMBDA num :
    IF num.ok THEN num
    ELSE IF StartsWith(s, i, <<"N", "a", "N">>) THEN JOk(<<"nan">>, i + 3)
    ELSE IF StartsWith(s, i, <<"I", "n", "f", "i", "n", "i", "t", "y">>)
         THEN JOk(<<"inf", FALSE>>, i + 8)
    ELSE IF StartsWith(s, i, <<"-", "I", "n", "f", "i", "n", "i", "t", "y">>)
         THEN JOk(<<"inf", TRUE>>, i + 9)
    ELSE JErr))

\* json.loads(s): ok = FALSE is JSONDecodeError
json_loads(s) ==
    Bind(JsonValue(s, SkipJsonSpace(s, 0)), LAMBDA r :
    IF r.ok /\ SkipJsonSpace(s, r.pos) = Len(s) THEN r ELSE JErr)

RECURSIVE NatChars(_)
NatChars(n) ==
    LET d == CHOOSE c \in Digits : DigitVal[c] = n % 10
    IN  IF n < 10 THEN <<d>> ELSE NatChars(n \div 10) \o <<d>>
\* str(n)
IntChars(n) == IF n < 0 THEN <<"-">> \o NatChars(-n) ELSE NatChars(n)

RECURSIVE JsonEscape(_)
JsonEscape(cs) ==
    IF cs = <<>> THEN <<>>
    ELSE (CASE Head(cs) = "\"" -> <<"\\", "\"">>
            [] Head(cs) = "\\" -> <<"\\", "\\">>
            [] Head(cs) = "\n" -> <<"\\", "n">>
            [] Head(cs) = "\r" -> <<"\\", "r">>
            [] Head(cs) = "\t" -> <<"\\", "t">>
            [] Head(cs) = "\f" -> <<"\\", "f">>
            [] Head(cs) = "BS" -> <<"\\", "b">>
            [] OTHER -> <<Head(cs)>>) \o JsonEscape(Tail(cs))

RECURSIVE json_dumps(_)
RECURSIVE DumpItems(_, _, _)
\* the members of a list (keys = <<>>) or of a dict, joined by ", "
DumpItems(keys, vals, n) ==
    IF n > Len(vals) THEN <<>>
    ELSE (IF n > 1 THEN <<",", " ">> ELSE <<>>)
         \o (IF keys = <<>> THEN <<>>
             ELSE LET k == keys[n]
                  IN  <<"\"">>
                      \o (IF k[1] = "str" THEN JsonEscape(k[2]) ELSE IntChars(k[2]))
                      \o <<"\"", ":", " ">>)
         \o json_dumps(vals[n])
         \o DumpItems(keys, vals, n + 1)

\* json.dumps(obj, ensure_ascii=False)
json_dumps(v) ==
    CASE v[1] = "null" -> <<"n", "u", "l", "l">>
      [] v[1] = "bool" -> IF v[2] THEN <<"t", "r", "u", "e">> ELSE <<"f", "a", "l", "s", "e">>
      [] v[1] = "int" -> IntChars(v[2])
      [] v[1] = "float" -> IntChars(v[2]) \o <<".", "0">>
      [] v[1] = "nan" -> <<"N", "a", "N">>
      [] v[1] = "inf" -> (IF v[2] THEN <<"-">> ELSE <<>>) \o <<"I", "n", "f", "i", "n", "i", "t", "y">>
      [] v[1] = "str" -> <<"\"">> \o JsonEscape(v[2]) \o <<"\"">>
      [] v[1] = "list" -> <<"[">> \o DumpItems(<<>>, v[2], 1) \o <<"]">>
      [] v[1] = "dict" -> <<"{">> \o DumpItems(v[2], v[3], 1) \o <<"}">>

----------------------------------------------------------------------------
(* Cleanup and JSON extraction helpers, php_to_json.py:170-254.            *)

\* str.replace(pat, rep): every occurrence, left to right, not overlapping
RECURSIVE Replace(_, _, _)
Replace(s, pat, rep) ==
    IF s = <<>> THEN <<>>
    ELSE IF pat # <<>> /\ StartsWith(s, 0, pat)
         THEN rep \o Replace(PySliceFrom(s, Len(pat)), pat, rep)
    ELSE <<Head(s)>> \o Replace(Tail(s), pat, rep)

\* _STRING_TOKEN, s:(\d+):"((?:\\.|[^"\\])*)";  matched at p: the offset after
\* the match, or -1.  The backslash is no character of the texts the model
\* cleans, so the content is the run up to the next quote.
StringTokenEnd(s, p) ==
    Bind(DigitsEnd(s, p + 2), LAMBDA d :
    Bind(PyFind(s, "\"", d + 2, Len(s)), LAMBDA q :
    IF /\ StartsWith(s, p, <<"s", ":">>)
       /\ d > p + 2
       /\ StartsWith(s, d, <<":", "\"">>)
       /\ q # -1
       /\ \A k \in (d + 3)..q : s[k] # "\\"
       /\ StartsWith(s, q, <<"\"", ";">>)
    THEN q + 2
    ELSE -1))

Placeholder(idx) == <<"@", "@", "S">> \o IntChars(idx) \o <<"@", "@">>

RECURSIVE Stash(_, _, _, _)
\* _STRING_TOKEN.sub(_stash, s)
Stash(s, p, shell, saved) ==
    LET e == StringTokenEnd(s, p)
    IN  IF p >= Len(s) THEN [shell |-> shell, saved |-> saved]
        ELSE IF e # -1
             THEN Stash(s, e, shell \o Placeholder(Len(saved)), Append(saved, PySlice(s, p, e)))
        ELSE Stash(s, p + 1, Append(shell, s[p + 1]), saved)

\* The named character references the model's characters spell.
HtmlEntities ==
    { <<<<"a", "m", "p", ";">>, "&">>, <<<<"a", "m", "p">>, "&">>,
      <<<<"q", "u", "o", "t", ";">>, "\"">>, <<<<"q", "u", "o", "t">>, "\"">>,
      <<<<"l", "t", ";">>, "<">>, <<<<"l", "t">>, "<">>,
      <<<<"g", "t", ";">>, ">">>, <<<<"g", "t">>, ">">> }
IsEntity(name) == \E e \in HtmlEntities : e[1] = name
EntityChar(name) == (CHOOSE e \in HtmlEntities : e[1] = name)[2]

RECURSIVE RefRunEnd(_, _, _)
\* [^\t\n\f <&#;]{1,32}
RefRunEnd(s, i, n) ==
    IF n < 32 /\ i < Len(s) /\ s[i + 1] \notin {"\t", "\n", "\f", " ", "<", "&", "#", ";"}
    THEN RefRunEnd(s, i + 1, n + 1) ELSE i

\* _replace_charref for a named reference
ReplaceCharref(name) ==
    Bind({x \in 2..(Len(name) - 1) : IsEntity(SubSeq(name, 1, x))}, LAMBDA cuts :
    LET x == CHOOSE c \in cuts : \A m \in cuts : m <= c
    IN  IF IsEntity(name) THEN <<EntityChar(name)>>
        ELSE IF cuts # {} THEN <<EntityChar(SubSeq(name, 1, x))>> \o SubSeq(name, x + 1, Len(name))
        ELSE <<"&">> \o name)

RECURSIVE UnescapeFrom(_, _)
UnescapeFrom(s, p) ==
    LET r == RefRunEnd(s, p + 1, 0)
        e == IF StartsWith(s, r, <<";">>) THEN r + 1 ELSE r
    IN  IF p >= Len(s) THEN <<>>
        ELSE IF s[p + 1] = "&" /\ r > p + 1
             THEN ReplaceCharref(PySlice(s, p + 1, e)) \o UnescapeFrom(s, e)
        ELSE <<s[p + 1]>> \o UnescapeFrom(s, p + 1)

\* html.unescape(s); numeric references need '#', no character of the model
html_unescape(s) == IF \A k \in 1..Len(s) : s[k] # "&" THEN s ELSE UnescapeFrom(s, 0)

RECURSIVE CollapseRuns(_, _)
\* re.sub(r'[ \t\f\v]+', ' ', s)
CollapseRuns(s, inrun) ==
    IF s = <<>> THEN <<>>
    ELSE IF Head(s) \in {" ", "\t", "\f", "VT"}
         THEN (IF inrun THEN <<>> ELSE <<" ">>) \o CollapseRuns(Tail(s), TRUE)
    ELSE <<Head(s)>> \o CollapseRuns(Tail(s), FALSE)

\* re.sub(r'\s*c\s*', 'c', s): every whitespace run next to a c goes
TrimAround(s, c) ==
    LET solid == {k \in 1..Len(s) : s[k] \notin PySpace}
        nextc(k) == LET right == {m \in solid : m > k}
                    IN  right # {} /\ s[CHOOSE m \in right : \A x \in right : m <= x] = c
        prevc(k) == LET left == {m \in solid : m < k}
                    IN  left # {} /\ s[CHOOSE m \in left : \A x \in left : m >= x] = c
        keep(k) == s[k] \notin PySpace \/ ~(nextc(k) \/ prevc(k))
        kept == SelectSeq([k \in 1..Len(s) |-> <<k, s[k]>>], LAMBDA kc : keep(kc[1]))
    IN  [k \in 1..Len(kept) |-> kept[k][2]]

RECURSIVE Restore(_, _, _)
\* for idx, tok in enumerate(saved): shell = shell.replace(f'@@S{idx}@@', tok)
Restore(shell, saved, idx) ==
    IF idx >= Len(saved) THEN shell
    ELSE Restore(Replace(shell, Placeholder(idx), saved[idx + 1]), saved, idx + 1)

safe_cleanup_shell_only(s) ==
    Bind(Stash(s, 0, <<>>, <<>>), LAMBDA st :
    LET s1 == html_unescape(st.shell)
        s2 == CollapseRuns(s1, FALSE)
        s3 == TrimAround(s2, ";")
        s4 == TrimAround(s3, ":")
        s5 == TrimAround(s4, "{")
        s6 == TrimAround(s5, "}")
    IN  Restore(s6, st.saved, 0))

\* LEAD_NOISE matches the text before the first '{' or '[', when there is one
strip_leading_noise(s) ==
    LET at == {k \in 1..Len(s) : s[k] \in {"{", "["}}
    IN  IF at = {} THEN s
        ELSE SubSeq(s, CHOOSE k \in at : \A m \in at : k <= m, Len(s))

Letters ==
    {"a", "b", "c", "d", "e", "f", "g", "h", "i", "j", "k", "l", "m", "n", "o", "p", "q",
     "r", "s", "t", "u", "v", "w", "x", "y", "z", "A", "B", "C", "D", "E", "F", "G", "H",
     "I", "J", "K", "L", "M", "N", "O", "P", "Q", "R", "S", "T", "U", "V", "W", "X", "Y", "Z"}
KeyChars == Letters \cup Digits \cup {"_", "-"}

RECURSIVE RunEnd(_, _, _)
\* the offset after the longest run of characters of set from i
RunEnd(s, i, set) == IF i < Len(s) /\ s[i + 1] \in set THEN RunEnd(s, i + 1, set) ELSE i

RECURSIVE FixKeys(_, _)
\* re.sub(r"(?<!\\)'([A-Za-z0-9_\-]+)'\s*:", r'"\1":', t)
FixKeys(t, p) ==
    LET e == RunEnd(t, p + 1, KeyChars)
        c == RunEnd(t, e + 1, PySpace)
        hit == /\ t[p + 1] = "'"
               /\ (p = 0 \/ t[p] # "\\")
               /\ e > p + 1
               /\ StartsWith(t, e, <<"'">>)
               /\ StartsWith(t, c, <<":">>)
    IN  IF p >= Len(t) THEN <<>>
        ELSE IF hit THEN <<"\"">> \o PySlice(t, p + 1, e) \o <<"\"", ":">> \o FixKeys(t, c + 1)
        ELSE <<t[p + 1]>> \o FixKeys(t, p + 1)

RECURSIVE FixValues(_, _)
\* re.sub(r':\s*\'([^\'\\]*(?:\\.[^\'\\]*)*)\'', lambda m: ': "' + m.group(1).replace('"', '\\"') + '"', t)
\* for a t without backslashes
FixValues(t, p) ==
    LET o == RunEnd(t, p + 1, PySpace)
        q == PyFind(t, "'", o + 1, Len(t))
        hit == t[p + 1] = ":" /\ StartsWith(t, o, <<"'">>) /\ q # -1
    IN  IF p >= Len(t) THEN <<>>
        ELSE IF hit
             THEN <<":", " ", "\"">> \o Replace(PySlice(t, o + 1, q), <<"\"">>, <<"\\", "\"">>)
                  \o <<"\"">> \o FixValues(t, q + 1)
        ELSE <<t[p + 1]>> \o FixValues(t, p + 1)

RECURSIVE FixCommas(_, _)
\* re.sub(r',\s*([}\]])', r'\1', t)
FixCommas(t, p) ==
    LET c == RunEnd(t, p + 1, PySpace)
        hit == t[p + 1] = "," /\ c < Len(t) /\ t[c + 1] \in {"}", "]"}
    IN  IF p >= Len(t) THEN <<>>
        ELSE IF hit THEN <<t[c + 1]>> \o FixCommas(t, c + 1)
        ELSE <<t[p + 1]>> \o FixCommas(t, p + 1)

None == [found |-> FALSE, text |-> <<>>]
Some(t) == [found |-> TRUE, text |-> t]

_loose_json_fixes(txt) ==
    Bind(json_loads(FixCommas(FixValues(FixKeys(txt, 0), 0), 0)), LAMBDA r :
    IF r.ok THEN Some(json_dumps(r.val)) ELSE None)

RECURSIVE BlockEnd(_, _, _, _, _)
\* the depth scan of _try_blocks from i: the offset where depth returns to 0, or -1
BlockEnd(s, i, depth, open_ch, close_ch) ==
    IF i >= Len(s) THEN -1
    ELSE IF s[i + 1] = open_ch THEN BlockEnd(s, i + 1, depth + 1, open_ch, close_ch)
    ELSE IF s[i + 1] = close_ch
         THEN IF depth - 1 = 0 THEN i ELSE BlockEnd(s, i + 1, depth - 1, open_ch, close_ch)
    ELSE BlockEnd(s, i + 1, depth, open_ch, close_ch)

\* what _try_blocks does with the candidate that starts at start
Candidate(s, start, open_ch, close_ch) ==
    Bind(BlockEnd(s, start, 0, open_ch, close_ch), LAMBDA e :
    IF e = -1 THEN None
    ELSE Bind(PySlice(s, start, e + 1), LAMBDA candidate :
         Bind(json_loads(candidate), LAMBDA strict :
         IF strict.ok THEN Some(json_dumps(strict.val))
         ELSE _loose_json_fixes(candidate))))

\* _try_blocks with the loop over the starts left after the first start
_try_blocks_first(s, p, open_ch, close_ch) ==
    Bind(PyFind(s, open_ch, p, Len(s)), LAMBDA start :
    IF start = -1 THEN None ELSE Candidate(s, start, open_ch, close_ch))

RECURSIVE _try_blocks(_, _, _, _)
\* the starts at or after offset p, left to right
_try_blocks(s, p, open_ch, close_ch) ==
    Bind(PyFind(s, open_ch, p, Len(s)), LAMBDA start :
    IF start = -1 THEN None
    ELSE Bind(Candidate(s, start, open_ch, close_ch), LAMBDA r :
         IF r.found THEN r
         ELSE _try_blocks(s, start + 1, open_ch, close_ch)))

ZeroWidth == {"U+200B", "U+200C", "U+200D", "U+200E", "U+200F",
              "U+202A", "U+202B", "U+202C", "U+202D", "U+202E"}

tidy_text_and_find_json(s0) ==
    LET s1 == Replace(Replace(Strip(s0, PySpace), <<"\r", "\n">>, <<"\n">>), <<"\r">>, <<"\n">>)
        s2 == html_unescape(s1)
        s3 == SelectSeq(s2, LAMBDA c : c \notin ZeroWidth)
    IN  Bind(strip_leading_noise(s3), LAMBDA s :
        Bind(_try_blocks(s, 0, "{", "}"), LAMBDA objs :
        IF objs.found THEN objs ELSE _try_blocks(s, 0, "[", "]")))

----------------------------------------------------------------------------
(* PhpToJsonApp.on_convert, php_to_json.py:608-660 (php_to_json_v2.py:     *)
(* 710-760), with _context_around_byte, lines 811-817.                     *)

RECURSIVE DecodeLossy(_, _)
\* bytes.decode("utf-8", errors=...): repl is what an undecodable byte becomes
DecodeLossy(s, repl) ==
    IF s = <<>> THEN <<>>
    ELSE IF Len(s) >= 2 /\ s[1] = "C3" /\ s[2] = "A9"
         THEN <<"U+00E9">> \o DecodeLossy(Tail(Tail(s)), repl)
    ELSE IF Head(s) \in {"C3", "A9"} THEN repl \o DecodeLossy(Tail(s), repl)
    ELSE <<Head(s)>> \o DecodeLossy(Tail(s), repl)

ContextRadius == 24

\* the snippet, and the column of the pointer on the line under it
_context_around_byte(raw_text, byte_pos) ==
    Bind(Encode(raw_text), LAMBDA b :
    LET start == Max(0, byte_pos - ContextRadius)
        end == Min(Len(b), byte_pos + ContextRadius)
    IN  [snippet |-> DecodeLossy(PySlice(b, start, end), <<"U+FFFD">>),
         pointer |-> Len(DecodeLossy(PySlice(b, start, byte_pos), <<>>))])

\* the exception objects on_convert handles
ParseErrorOf(r) == [type |-> "ParseError", msg |-> r.msg, pos |-> r.pos]
OtherErrorOf(r) == [type |-> r.kind, msg |-> r.msg, pos |-> r.pos]
JSONDecodeError == [type |-> "JSONDecodeError", msg |-> "JSON text does not parse", pos |-> 0]

\* lines 649-650, "except Exception: raise" inside the handler of pe: the bare
\* raise re-raises the exception that clause caught, the JSON parse's
FallbackRaise(pe, je) == je

\* lines 652-660: the two outer except clauses
Report(text, e) ==
    IF e.type = "ParseError"
    THEN [output |-> [kind |-> "error", error |-> e.msg, byte_pos |-> e.pos,
                      context |-> _context_around_byte(text, e.pos)],
          status |-> "Parse error at byte"]
    ELSE [output |-> [kind |-> "error", error |-> e.msg],
          status |-> "Error"]

\* _print_output(json.dumps(obj, ...)): the output pane shows the value obj
Rendered(v) == [kind |-> "json", value |-> v]

NoCall == [fn |-> "none"]

\* What one run of the handler leaves behind: its local raw, the status line,
\* the output pane, the diagnostics pane, the strategies it invoked, the two
\* module globals and the decoder call it made.
Outcome(text, st, out, notes, ran, L, W, c) ==
    [raw |-> text, status |-> st, output |-> out, diag |-> notes, steps |-> ran,
     L |-> L, W |-> W, call |-> c]

\* lines 614-616
EmptyInput(text, out0, L, W) ==
    Outcome(text, "Input is empty.", out0, <<>>, <<>>, L, W, NoCall)

\* SetLenient with the assignment lost: the flag stays as the last run left it
SetLenientStale(L, lenient) == L

\* line 629: LENIENT_STRING_TERMINATOR = bool(self.lenient_var.get())
SetLenient(L, lenient) == lenient

\* lines 634-641: the decoder returned r
Converted(cleaned, pre, r, ran) ==
    Outcome(cleaned,
            IF r.w = <<>> THEN "Converted successfully." ELSE "Converted with note(s).",
            Rendered(r.val), r.w, pre \o <<"grammar">>, ran.lenient, r.w, ran)

\* lines 652-660 after the decoder raised r and, when fallback is TRUE, the
\* JSON parse failed too
Failed(cleaned, pre, fallback, r, ran) ==
    Bind(Report(cleaned, IF fallback THEN FallbackRaise(ParseErrorOf(r), JSONDecodeError)
                         ELSE OtherErrorOf(r)), LAMBDA failed :
    Outcome(cleaned, failed.status, failed.output, <<>>,
            pre \o (IF fallback THEN <<"grammar", "fallback">> ELSE <<"grammar">>),
            ran.lenient, r.w, ran))

\* PlainJson with the success lost: the failure is reported although the JSON
\* parse returned
PlainJsonReported(cleaned, pre, obj, r, ran) == Failed(cleaned, pre, TRUE, r, ran)

\* lines 644-648: the JSON parse of the noise-stripped text returned obj
PlainJson(cleaned, pre, obj, r, ran) ==
    Outcome(cleaned, "Input was JSON. Pretty-printed.", Rendered(obj), <<>>,
            pre \o <<"grammar", "fallback">>, ran.lenient, r.w, ran)

\* lines 629-650: the grammar decoder on raw, then the JSON fallback
Decode(cleaned, pre, lenient, L, W) ==
    Bind(SetLenient(L, lenient), LAMBDA flag :
    Bind(php_unserialize(cleaned, flag, W), LAMBDA r :
    Bind([fn |-> "php_unserialize", at |-> 0, lenient |-> flag,
          entry_L |-> L, entry_W |-> W, res |-> r], LAMBDA ran :
    IF r.kind = "ok" THEN Converted(cleaned, pre, r, ran)
    ELSE IF r.kind # "ParseError" THEN Failed(cleaned, pre, FALSE, r, ran)
    ELSE Bind(json_loads(strip_leading_noise(cleaned)), LAMBDA fb :
         IF fb.ok THEN PlainJson(cleaned, pre, fb.val, r, ran)
         ELSE Failed(cleaned, pre, TRUE, r, ran)))))

\* EmbeddedJson without its return: the handler goes on to the decoder
EmbeddedJsonFallsThrough(cleaned, j, L, W) ==
    Decode(cleaned, <<"cleaner", "extractor">>, L, L, W)

\* lines 622-627: the extractor's hit j is parsed, rendered and reported
EmbeddedJson(cleaned, j, L, W) ==
    Bind(json_loads(j), LAMBDA obj :
    IF obj.ok
    THEN Outcome(cleaned, "Found embedded JSON and formatted it.", Rendered(obj.val), <<>>,
                 <<"cleaner", "extractor">>, L, W, NoCall)
    ELSE Bind(Report(cleaned, JSONDecodeError), LAMBDA failed :
         Outcome(cleaned, failed.status, failed.output, <<>>,
                 <<"cleaner", "extractor">>, L, W, NoCall)))

\* One run of the handler on the widget text text0 with the two checkboxes,
\* entered with the globals L (LENIENT_STRING_TERMINATOR) and W (WARNINGS) and
\* the output pane out0.
on_convert(text0, cleanup, lenient, L, W, out0) ==
    Bind(Strip(text0, PySpace), LAMBDA text :
    IF text = <<>> THEN EmptyInput(text, out0, L, W)
    ELSE IF ~cleanup THEN Decode(text, <<>>, lenient, L, W)
    ELSE Bind(safe_cleanup_shell_only(text), LAMBDA cleaned :
         Bind(tidy_text_and_find_json(cleaned), LAMBDA j :
         IF j.found THEN EmbeddedJson(cleaned, j.text, L, W)
         ELSE Decode(cleaned, <<"cleaner", "extractor">>, lenient, L, W))))

----------------------------------------------------------------------------
(* The handler run from the window: specification Spec.                    *)

\* N;
T_N == <<"N", ";">>
\* s:1:"a";
T_Sa == <<"s", ":", "1", ":", "\"", "a", "\"", ";">>
\* s:9:"a";
T_Short == <<"s", ":", "9", ":", "\"", "a", "\"", ";">>
\* O:1;
T_O == <<"O", ":", "1", ";">>
\* {"a":1}
T_Obj == <<"{", "\"", "a", "\"", ":", "1", "}">>
\* [1]
T_Arr == <<"[", "1", "]">>
\* 1
T_One == <<"1">>
\* a:1:{i:0;N;}
T_List == <<"a", ":", "1", ":", "{", "i", ":", "0", ";", "N", ";", "}">>
\* a:0:{}
T_Empty == <<"a", ":", "0", ":", "{", "}">>
\* {"a":1,}
T_Comma == <<"{", "\"", "a", "\"", ":", "1", ",", "}">>
\* a:1:{s:0:"";a:1:{s:-14:"
T_Bomb ==
    <<"a", ":", "1", ":", "{", "s", ":", "0", ":", "\"", "\"", ";", "a", ":", "1", ":", "{",
      "s", ":", "-", "1", "4", ":", "\"">>

Prefixes == {<<>>, <<"x", " ">>}
Bodies == {<<>>, T_N, T_Sa, T_Short, T_O, T_Obj, T_Arr, T_One, T_List, T_Empty, T_Comma}
Suffixes == {<<>>, <<" ", "x">>}
\* a body alone, after a log preamble, before trailing text, or between both
ConvertTexts == {p \o b \o x : p \in Prefixes, b \in Bodies, x \in Suffixes} \cup {T_Bomb}

MaxCalls == 2

NoCallers == <<>>

Init ==
    /\ input_text = <<>>
    /\ raw = <<>>
    /\ cleanup_var = FALSE
    /\ lenient_var = FALSE
    /\ LENIENT_STRING_TERMINATOR = FALSE
    /\ WARNINGS = <<>>
    /\ status = "Ready"
    /\ output = [kind |-> "none"]
    /\ diag = <<>>
    /\ steps = <<>>
    /\ call = NoCall
    /\ ncalls = 0
    /\ callers = NoCallers

\* The user presses Convert with text in the input widget and the two
\* checkboxes set to cleanup and lenient.
Convert(text, cleanup, lenient) ==
    /\ ncalls < MaxCalls
    /\ \E res \in {on_convert(text, cleanup, lenient, LENIENT_STRING_TERMINATOR, WARNINGS,
                              output)} :
        /\ ncalls' = ncalls + 1
        /\ input_text' = text
        /\ raw' = res.raw
        /\ cleanup_var' = cleanup
        /\ lenient_var' = lenient
        /\ LENIENT_STRING_TERMINATOR' = res.L
        /\ WARNINGS' = res.W
        /\ status' = res.status
        /\ output' = res.output
        /\ diag' = res.diag
        /\ steps' = res.steps
        /\ call' = res.call
        /\ UNCHANGED callers

Next == \E text \in ConvertTexts, cleanup \in BOOLEAN, lenient \in BOOLEAN :
            Convert(text, cleanup, lenient)

Spec == Init /\ [][Next]_vars

----------------------------------------------------------------------------
(* One call of a production of the decoder on a serialized text:           *)
(* specification SpecProd.  The leniency flag is as an earlier run of the  *)
(* handler left it.                                                        *)

\* i:7;
T_Int == <<"i", ":", "7", ";">>
\* i:-3;
T_Neg == <<"i", ":", "-", "3", ";">>
\* d:5;
T_Float == <<"d", ":", "5", ";">>
\* d:nan;
T_NaN == <<"d", ":", "n", "a", "n", ";">>
\* b:1;
T_True == <<"b", ":", "1", ";">>
\* b:2;
T_Two == <<"b", ":", "2", ";">>
\* s:1:"a" ;
T_Spaced == <<"s", ":", "1", ":", "\"", "a", "\"", " ", ";">>
\* s:0:"a";
T_Long == <<"s", ":", "0", ":", "\"", "a", "\"", ";">>
\* s:-9:"";x
T_Back == <<"s", ":", "-", "9", ":", "\"", "\"", ";", "x">>
\* s:-8:"";
T_Back8 == <<"s", ":", "-", "8", ":", "\"", "\"", ";">>
\* s:2:"é";
T_Wide == <<"s", ":", "2", ":", "\"", "U+00E9", "\"", ";">>
\* a:-1:{}
T_Minus == <<"a", ":", "-", "1", ":", "{", "}">>
\* a:2:{i:0;N;i:1;b:1;}
T_Pair ==
    <<"a", ":", "2", ":", "{", "i", ":", "0", ";", "N", ";", "i", ":", "1", ";", "b", ":",
      "1", ";", "}">>
\* a:2:{i:0;s:1:"a";i:5;s:1:"b";}
T_Gap ==
    <<"a", ":", "2", ":", "{", "i", ":", "0", ";", "s", ":", "1", ":", "\"", "a", "\"", ";",
      "i", ":", "5", ";", "s", ":", "1", ":", "\"", "b", "\"", ";", "}">>
\* a:2:{i:1;N;i:0;N;}
T_Swap ==
    <<"a", ":", "2", ":", "{", "i", ":", "1", ";", "N", ";", "i", ":", "0", ";", "N", ";",
      "}">>
\* a:2:{i:0;i:1;i:0;i:2;}
T_Twice ==
    <<"a", ":", "2", ":", "{", "i", ":", "0", ";", "i", ":", "1", ";", "i", ":", "0", ";",
      "i", ":", "2", ";", "}">>
\* a:1:{s:1:"k";i:1;}
T_Named ==
    <<"a", ":", "1", ":", "{", "s", ":", "1", ":", "\"", "k", "\"", ";", "i", ":", "1", ";",
      "}">>
\* a:2:{i:0;N;s:1:"1";N;}
T_Mixed ==
    <<"a", ":", "2", ":", "{", "i", ":", "0", ";", "N", ";", "s", ":", "1", ":", "\"", "1",
      "\"", ";", "N", ";", "}">>
\* a:1:{i:1;N;}
T_From1 == <<"a", ":", "1", ":", "{", "i", ":", "1", ";", "N", ";", "}">>
\* a:1:{i:0;a:1:{i:5;N;}}
T_Nested ==
    <<"a", ":", "1", ":", "{", "i", ":", "0", ";", "a", ":", "1", ":", "{", "i", ":", "5",
      ";", "N", ";", "}", "}">>
\* a:1:{i:0;N;
T_Open == <<"a", ":", "1", ":", "{", "i", ":", "0", ";", "N", ";">>
\* a:2:{i:0;N;}
T_Few == <<"a", ":", "2", ":", "{", "i", ":", "0", ";", "N", ";", "}">>
\* N;x
T_Trail == <<"N", ";", "x">>
\* a:x:{}
T_Count == <<"a", ":", "x", ":", "{", "}">>
\* a:1:{i:0;s:9:"a";}
T_Fix ==
    <<"a", ":", "1", ":", "{", "i", ":", "0", ";", "s", ":", "9", ":", "\"", "a", "\"", ";",
      "}">>

\* a:3:{s:1:"a";i:1;s:1:"b";i:2;s:1:"a";i:3;}
T_Dup ==
    <<"a", ":", "3", ":", "{", "s", ":", "1", ":", "\"", "a", "\"", ";", "i", ":", "1",
      ";", "s", ":", "1", ":", "\"", "b", "\"", ";", "i", ":", "2", ";", "s", ":", "1",
      ":", "\"", "a", "\"", ";", "i", ":", "3", ";", "}">>

\* s:9:"é";
T_WideShort == <<"s", ":", "9", ":", "\"", "U+00E9", "\"", ";">>
\* s:9:"a";b";
T_ShortTwo == <<"s", ":", "9", ":", "\"", "a", "\"", ";", "b", "\"", ";">>
\* a:1:{i:0;O:1;}
T_Object == <<"a", ":", "1", ":", "{", "i", ":", "0", ";", "O", ":", "1", ";", "}">>
\* N; x
T_TrailGap == <<"N", ";", " ", "x">>
\* N; \n
T_TrailSpace == <<"N", ";", " ", "\n">>
\* N;\f
T_TrailFeed == <<"N", ";", "\f">>
\* s:9:"a"; x
T_FixTrail == <<"s", ":", "9", ":", "\"", "a", "\"", ";", " ", "x">>

\* a:1:{i:0;N;i:1;N;}
T_Many ==
    <<"a", ":", "1", ":", "{", "i", ":", "0", ";", "N", ";", "i", ":", "1", ";", "N",
      ";", "}">>
\* a:1:{d:0;N;}
T_BadKey == <<"a", ":", "1", ":", "{", "d", ":", "0", ";", "N", ";", "}">>

\* i:1_0;
T_Under == <<"i", ":", "1", "_", "0", ";">>
\* i:x;
T_IntBad == <<"i", ":", "x", ";">>
\* i:7
T_IntOpen == <<"i", ":", "7">>
\* b:0;
T_False == <<"b", ":", "0", ";">>
\* i:;
T_IntEmpty == <<"i", ":", ";">>
\* i:12;7;
T_IntLong == <<"i", ":", "1", "2", ";", "7", ";">>
\* i: 7;
T_IntPad == <<"i", ":", " ", "7", ";">>

\* s:3:"a";";
T_Inner == <<"s", ":", "3", ":", "\"", "a", "\"", ";", "\"", ";">>
\* s:0:"";
T_Nil == <<"s", ":", "0", ":", "\"", "\"", ";">>

\* s:9:"a
T_NoClose == <<"s", ":", "9", ":", "\"", "a">>
\* s:1:"a" x
T_NoTerm == <<"s", ":", "1", ":", "\"", "a", "\"", " ", "x">>
\* a:2:{i:0;s:9:"a";i:1;s:9:"b}
T_TwoFix ==
    <<"a", ":", "2", ":", "{", "i", ":", "0", ";", "s", ":", "9", ":", "\"", "a", "\"",
      ";", "i", ":", "1", ";", "s", ":", "9", ":", "\"", "b", "}">>

\* s:9:"a"\f;b";
T_FeedTerm ==
    <<"s", ":", "9", ":", "\"", "a", "\"", "\f", ";", "b", "\"", ";">>

\* a:1:{i:0;a:1:{i:0;O:1;}}
T_Deep ==
    <<"a", ":", "1", ":", "{", "i", ":", "0", ";", "a", ":", "1", ":", "{", "i", ":", "0",
      ";", "O", ":", "1", ";", "}", "}">>

\* a:2:{i:0;s:9:"a";i:1;s:9:"b";}x
T_TwoFixed ==
    <<"a", ":", "2", ":", "{", "i", ":", "0", ";", "s", ":", "9", ":", "\"", "a", "\"",
      ";", "i", ":", "1", ";", "s", ":", "9", ":", "\"", "b", "\"", ";", "}", "x">>
\* a:1:{s:9:"a";s:-24:"";}x
T_BackTrail ==
    <<"a", ":", "1", ":", "{", "s", ":", "9", ":", "\"", "a", "\"", ";", "s", ":", "-",
      "2", "4", ":", "\"", "\"", ";", "}", "x">>

DecodeTexts ==
    {T_N, T_Sa, T_Short, T_O, T_List, T_Empty, T_Bomb,
     T_Int, T_Neg, T_Float, T_NaN, T_True, T_Two, T_Spaced, T_Long, T_Back, T_Back8,
     T_Wide, T_Minus, T_Pair, T_Gap, T_Swap, T_Twice, T_Named, T_Mixed, T_From1,
     T_Nested, T_Open, T_Few, T_Trail, T_Count, T_Fix, T_Dup,
     T_WideShort, T_ShortTwo, T_Object, T_TrailGap, T_TrailSpace, T_TrailFeed, T_FixTrail,
     T_Many, T_BadKey, T_Under, T_IntBad, T_IntOpen, T_False, T_IntEmpty, T_IntLong,
     T_IntPad, T_Inner, T_Nil, T_NoClose, T_NoTerm, T_TwoFix, T_FeedTerm,
     T_Deep, T_TwoFixed, T_BackTrail}

InitProd ==
    /\ input_text \in DecodeTexts
    /\ raw = input_text
    /\ cleanup_var = FALSE
    /\ lenient_var = FALSE
    /\ LENIENT_STRING_TERMINATOR \in BOOLEAN
    /\ WARNINGS = <<>>
    /\ status = "Ready"
    /\ output = [kind |-> "none"]
    /\ diag = <<>>
    /\ steps = <<>>
    /\ call = NoCall
    /\ ncalls = 0
    /\ callers = NoCallers

\* the call of production fn at offset i of the bytes of raw returned or raised res
Called(fn, i, res) ==
    /\ call = NoCall
    /\ call' = [fn |-> fn, at |-> i, lenient |-> LENIENT_STRING_TERMINATOR, res |-> res]
    /\ WARNINGS' = res.w
    /\ ncalls' = ncalls + 1
    /\ UNCHANGED <<input_text, raw, cleanup_var, lenient_var, LENIENT_STRING_TERMINATOR,
                   status, output, diag, steps, callers>>

ParseInt(i) == Called("_parse_int", i, _parse_int(Encode(raw), i, WARNINGS))

ParseFloat(i) == Called("_parse_float", i, _parse_float(Encode(raw), i, WARNINGS))

ParseBool(i) == Called("_parse_bool", i, _parse_bool(Encode(raw), i, WARNINGS))

ParseString(i) ==
    Called("_parse_string", i,
           _parse_string(Encode(raw), i, LENIENT_STRING_TERMINATOR, WARNINGS))

ParseKey(i) ==
    Called("_parse_key", i, _parse_key(Encode(raw), i, LENIENT_STRING_TERMINATOR, WARNINGS))

ParseValue(i) ==
    Called("_parse_value", i,
           _parse_value(Encode(raw), i, LENIENT_STRING_TERMINATOR, WARNINGS, 1))

\* MAX_LOOKAHEAD is a local constant of _lenient_scan_close that no text here
\* is long enough to reach: the scan also runs with lookaheads the texts exceed
Lookaheads == {1, 3, MAX_LOOKAHEAD}

LenientScanClose(i, L) ==
    Called("_lenient_scan_close", i,
           [kind |-> "scan", bound |-> L, scan |-> ScanClose(Encode(raw), i, L),
            w |-> WARNINGS])

Unserialize ==
    Called("php_unserialize", 0, php_unserialize(raw, LENIENT_STRING_TERMINATOR, WARNINGS))

NextProd ==
    \/ \E i \in 0..Len(Encode(raw)) :
        \/ ParseInt(i)
        \/ ParseFloat(i)
        \/ ParseBool(i)
        \/ ParseString(i)
        \/ ParseKey(i)
        \/ ParseValue(i)
        \/ \E L \in Lookaheads : LenientScanClose(i, L)
    \/ Unserialize

SpecProd == InitProd /\ [][NextProd]_vars

----------------------------------------------------------------------------
(* Two callers of the decoder whose steps interleave: specification        *)
(* SpecConc.  A caller sets the flag from its own checkbox (line 629),     *)
(* php_unserialize resets WARNINGS (line 161), parses (lines 162-166), and *)
(* the caller reads WARNINGS for its diagnostics (line 636).               *)

Callers == {1, 2}
ConcTexts == {T_N, T_Sa, T_Short, T_Trail}

Idle == [pc |-> "idle"]

InitConc ==
    /\ input_text = <<>>
    /\ raw = <<>>
    /\ cleanup_var = FALSE
    /\ lenient_var = FALSE
    /\ LENIENT_STRING_TERMINATOR = FALSE
    /\ WARNINGS = <<>>
    /\ status = "Ready"
    /\ output = [kind |-> "none"]
    /\ diag = <<>>
    /\ steps = <<>>
    /\ call = NoCall
    /\ ncalls = 0
    /\ callers = [c \in Callers |-> Idle]

Untouched ==
    UNCHANGED <<input_text, raw, cleanup_var, lenient_var, status, output, diag, steps,
                call, ncalls>>

\* caller c enters on_convert with its text and its lenient checkbox
Begin(c, text, lenient) ==
    /\ callers[c].pc = "idle"
    /\ callers' = [callers EXCEPT ![c] = [pc |-> "flag", text |-> text, lenient |-> lenient]]
    /\ UNCHANGED <<LENIENT_STRING_TERMINATOR, WARNINGS>>
    /\ Untouched

SetFlag(c) ==
    /\ callers[c].pc = "flag"
    /\ LENIENT_STRING_TERMINATOR' = SetLenient(LENIENT_STRING_TERMINATOR, callers[c].lenient)
    /\ callers' = [callers EXCEPT ![c] = [pc |-> "reset", text |-> @.text,
                                          lenient |-> @.lenient]]
    /\ UNCHANGED WARNINGS
    /\ Untouched

ResetWarnings(c) ==
    /\ callers[c].pc = "reset"
    /\ WARNINGS' = _reset_warnings(WARNINGS)
    /\ callers' = [callers EXCEPT ![c] = [pc |-> "parse", text |-> @.text,
                                          lenient |-> @.lenient]]
    /\ UNCHANGED LENIENT_STRING_TERMINATOR
    /\ Untouched

ParseText(c) ==
    /\ callers[c].pc = "parse"
    /\ \E res \in {Unserialized(Encode(callers[c].text),
                                _parse_value(Encode(callers[c].text), 0,
                                             LENIENT_STRING_TERMINATOR, WARNINGS, 1))} :
        /\ WARNINGS' = res.w
        /\ callers' = [callers EXCEPT ![c] = [pc |-> "emit", text |-> @.text,
                                              lenient |-> @.lenient, res |-> res]]
    /\ UNCHANGED LENIENT_STRING_TERMINATOR
    /\ Untouched

EmitDiag(c) ==
    /\ callers[c].pc = "emit"
    /\ callers' = [callers EXCEPT ![c] =
                       [pc |-> "done", text |-> @.text, lenient |-> @.lenient,
                        res |-> @.res,
                        notes |-> IF @.res.kind = "ok" THEN WARNINGS ELSE <<>>]]
    /\ UNCHANGED <<LENIENT_STRING_TERMINATOR, WARNINGS>>
    /\ Untouched

NextConc ==
    \E c \in Callers :
        \/ \E text \in ConcTexts, lenient \in BOOLEAN : Begin(c, text, lenient)
        \/ SetFlag(c)
        \/ ResetWarnings(c)
        \/ ParseText(c)
        \/ EmitDiag(c)

SpecConc == InitConc /\ [][NextConc]_vars

----------------------------------------------------------------------------
(* The cleaner and the extractor applied to a text: specification SpecText. *)

\* s:1:"a";
K_Plain == <<"s", ":", "1", ":", "\"", "a", "\"", ";">>
\* s:5:"a ; b";
K_Gaps == <<"s", ":", "5", ":", "\"", "a", " ", ";", " ", "b", "\"", ";">>
\* s:5:"&amp;";
K_Entity == <<"s", ":", "5", ":", "\"", "&", "a", "m", "p", ";", "\"", ";">>
\* s:5:"{ a }";
K_Brace == <<"s", ":", "5", ":", "\"", "{", " ", "a", " ", "}", "\"", ";">>
\* s:4:"a  b";
K_Wide == <<"s", ":", "4", ":", "\"", "a", " ", " ", "b", "\"", ";">>
\* s:4:"a" ;";
K_Quote == <<"s", ":", "4", ":", "\"", "a", "\"", " ", ";", "\"", ";">>
\* s:6:"@@S1@@";
K_Place == <<"s", ":", "6", ":", "\"", "@", "@", "S", "1", "@", "@", "\"", ";">>
\* a:1:{ and a space
P_Array == <<"a", ":", "1", ":", "{", " ">>
\* x &amp; and a space
P_Entity == <<"x", " ", "&", "a", "m", "p", ";", " ">>
\* a space, then ; }
Q_Close == <<" ", ";", " ", "}">>
\* s:1:"b";
Q_Token == <<"s", ":", "1", ":", "\"", "b", "\"", ";">>
\* {"a":1}
E_Obj == <<"{", "\"", "a", "\"", ":", "1", "}">>
\* x {"a":1} y
E_Log == <<"x", " ", "{", "\"", "a", "\"", ":", "1", "}", " ", "y">>
\* {x} {"a":1}
E_Second == <<"{", "x", "}", " ", "{", "\"", "a", "\"", ":", "1", "}">>
\* [1] {x} {"a":1}
E_ArrObj == <<"[", "1", "]", " ", "{", "x", "}", " ", "{", "\"", "a", "\"", ":", "1", "}">>
\* [{"a":1}]
E_Inside == <<"[", "{", "\"", "a", "\"", ":", "1", "}", "]">>
\* [1]
E_Arr == <<"[", "1", "]">>
\* [x] [1]
E_ArrSecond == <<"[", "x", "]", " ", "[", "1", "]">>
\* {'a':1}
E_Loose == <<"{", "'", "a", "'", ":", "1", "}">>
\* [1,]
E_Comma == <<"[", "1", ",", "]">>
\* {x} [x]
E_None == <<"{", "x", "}", " ", "[", "x", "]">>
\* {"a":{"b":1}}
E_Nested == <<"{", "\"", "a", "\"", ":", "{", "\"", "b", "\"", ":", "1", "}", "}">>
\* {"a":1} {"b":2}
E_Two == <<"{", "\"", "a", "\"", ":", "1", "}", " ", "{", "\"", "b", "\"", ":", "2", "}">>
\* {{"a":1}}
E_Double == <<"{", "{", "\"", "a", "\"", ":", "1", "}", "}">>
\* {"a":"}"} [1]
E_InString == <<"{", "\"", "a", "\"", ":", "\"", "}", "\"", "}", " ", "[", "1", "]">>
\* {"a":1
E_Open == <<"{", "\"", "a", "\"", ":", "1">>
\* x
E_Word == <<"x">>

Tokens == {K_Plain, K_Gaps, K_Entity, K_Brace, K_Wide, K_Quote, K_Place}
\* a string token alone, inside a container or after a log preamble, and before
\* shell punctuation or a second token
CleanTexts ==
    {p \o k \o q : p \in {<<>>, P_Array, P_Entity}, k \in Tokens, q \in {<<>>, Q_Close, Q_Token}}
ExtractTexts ==
    {E_Obj, E_Log, E_Second, E_ArrObj, E_Inside, E_Arr, E_ArrSecond, E_Loose, E_Comma,
     E_None, E_Nested, E_Two, E_Double, E_InString, E_Open, E_Word}

InitText ==
    /\ input_text \in CleanTexts \cup ExtractTexts
    /\ raw = input_text
    /\ cleanup_var = TRUE
    /\ lenient_var = FALSE
    /\ LENIENT_STRING_TERMINATOR = FALSE
    /\ WARNINGS = <<>>
    /\ status = "Ready"
    /\ output = [kind |-> "none"]
    /\ diag = <<>>
    /\ steps = <<>>
    /\ call = NoCall
    /\ ncalls = 0
    /\ callers = NoCallers

\* raw = safe_cleanup_shell_only(raw)   (line 620), on the text of the widget
Clean ==
    /\ call = NoCall
    /\ raw' = safe_cleanup_shell_only(input_text)
    /\ call' = [fn |-> "safe_cleanup_shell_only"]
    /\ steps' = <<"cleaner">>
    /\ ncalls' = ncalls + 1
    /\ UNCHANGED <<input_text, cleanup_var, lenient_var, LENIENT_STRING_TERMINATOR, WARNINGS,
                   status, output, diag, callers>>

\* j = tidy_text_and_find_json(raw)   (line 621), on the text of the widget
Extract ==
    /\ call = NoCall
    /\ call' = [fn |-> "tidy_text_and_find_json", res |-> tidy_text_and_find_json(input_text)]
    /\ steps' = <<"extractor">>
    /\ ncalls' = ncalls + 1
    /\ UNCHANGED <<input_text, raw, cleanup_var, lenient_var, LENIENT_STRING_TERMINATOR,
                   WARNINGS, status, output, diag, callers>>

NextText == Clean \/ Extract

SpecText == InitText /\ [][NextText]_vars

----------------------------------------------------------------------------
(* The handler on serialized values whose keys or string payloads look     *)
(* like something else: specification SpecValues.                          *)

\* a:2:{i:1;N;s:1:"1";N;}
V_Clash ==
    <<"a", ":", "2", ":", "{", "i", ":", "1", ";", "N", ";", "s", ":", "1", ":", "\"",
      "1", "\"", ";", "N", ";", "}">>
\* s:7:"{"a":1}";
V_Json == <<"s", ":", "7", ":", "\"", "{", "\"", "a", "\"", ":", "1", "}", "\"", ";">>
\* s:3:"[1]";
V_List == <<"s", ":", "3", ":", "\"", "[", "1", "]", "\"", ";">>
\* a:1:{s:1:"k";s:2:"[]";}
V_Inner ==
    <<"a", ":", "1", ":", "{", "s", ":", "1", ":", "\"", "k", "\"", ";", "s", ":", "2",
      ":", "\"", "[", "]", "\"", ";", "}">>

ValueTexts ==
    {V_Clash, V_Json, V_List, V_Inner, T_N, T_Sa, T_Short, T_List, T_Pair, T_Named,
     T_Mixed, K_Plain, K_Gaps, K_Entity, K_Brace, K_Wide, K_Quote, K_Place}

NextValues == \E text \in ValueTexts, cleanup \in BOOLEAN, lenient \in BOOLEAN :
                  Convert(text, cleanup, lenient)

SpecValues == Init /\ [][NextValues]_vars

----------------------------------------------------------------------------
(* Properties of the handler (Spec), of the productions (SpecProd) and of  *)
(* interleaved callers (SpecConc).                                         *)

\* the last run of the handler invoked the strategy step
Ran(step) == \E n \in 1..Len(steps) : steps[n] = step

\* C1: when the grammar decoder raised ParseError and the JSON fallback failed
\* too, the outcome shown is that ParseError: its message, its byte offset and
\* the context snippet around the offset.
C1_FinalFailureIsTheParseError ==
    (Ran("fallback") /\ status # "Input was JSON. Pretty-printed.") =>
        /\ status = "Parse error at byte"
        /\ output = [kind |-> "error", error |-> call.res.msg, byte_pos |-> call.res.pos,
                     context |-> _context_around_byte(raw, call.res.pos)]

\* C2: the decoder started at offset 0 ends with a value and a new offset or
\* with ParseError, whatever the declared lengths and counts; it never recurses
\* without consuming input.
C2_DecoderEndsInValueOrParseError ==
    (call.fn \in {"php_unserialize", "_parse_value"} /\ call.at = 0) =>
        call.res.kind \in {"ok", "ParseError"}

Productions ==
    {"_parse_int", "_parse_float", "_parse_bool", "_parse_string", "_parse_key",
     "_parse_value"}

\* C3: a production called at offset i that returns, returns a new offset
\* strictly greater than i.
C3_OffsetsOnlyIncrease ==
    (call.fn \in Productions /\ call.res.kind = "ok") => call.res.pos > call.at

\* C4: whatever the earlier runs left behind, a run with the same text and the
\* same two settings shows the same status, value or error and diagnostics as a
\* run from the initial globals, and the notes it holds are exactly the ones the
\* run made.
C4_HistoryIndependent ==
    ncalls > 0 =>
        LET fresh == on_convert(input_text, cleanup_var, lenient_var, FALSE, <<>>,
                                [kind |-> "none"])
        IN  /\ status = fresh.status
            /\ fresh.status # "Input is empty." => output = fresh.output
            /\ diag = fresh.diag
            /\ steps = fresh.steps
            /\ call.fn = fresh.call.fn
            /\ call.fn = "php_unserialize" =>
                /\ call.res = fresh.call.res
                /\ WARNINGS = fresh.W
                /\ call.res.kind = "ok" => diag = call.res.w

\* the second run entered with notes and a flag left by the first, and made a
\* note of its own
C4_Witness ==
    /\ ncalls = 2
    /\ call.fn = "php_unserialize"
    /\ call.entry_W # <<>>
    /\ call.entry_L # call.lenient
    /\ Len(diag) = 1

\* C5: of two callers whose steps interleave, each is decoded under its own
\* lenient setting and receives only its own notes.
C5_CallersAreIsolated ==
    \A c \in Callers :
        callers[c].pc = "done" =>
            LET own == php_unserialize(callers[c].text, callers[c].lenient, <<>>)
            IN  /\ callers[c].res.kind = own.kind
                /\ callers[c].res.val = own.val
                /\ callers[c].notes = IF own.kind = "ok" THEN own.w ELSE <<>>

\* C6: with cleanup on and a hit of the extractor on the cleaned text, the run
\* ends with the embedded-JSON status and the extracted JSON value, no
\* diagnostics, and neither the grammar decoder nor the fallback invoked.
C6_ExtractorHitEndsTheRun ==
    (ncalls > 0 /\ cleanup_var /\ raw # <<>>) =>
        LET j == tidy_text_and_find_json(raw)
        IN  j.found =>
                /\ status = "Found embedded JSON and formatted it."
                /\ json_loads(j.text).ok
                /\ output = [kind |-> "json", value |-> json_loads(j.text).val]
                /\ diag = <<>>
                /\ ~Ran("grammar") /\ ~Ran("fallback")
                /\ call.fn = "none"

\* a log preamble before {"a":1}
C6_Witness ==
    /\ cleanup_var
    /\ input_text = <<"x", " ">> \o T_Obj
    /\ status = "Found embedded JSON and formatted it."
    /\ output = [kind |-> "json",
                 value |-> <<"dict", <<<<"str", <<"a">>>>>>, <<<<"int", 1>>>>>>]

StepOrders ==
    {<<>>, <<"grammar">>, <<"grammar", "fallback">>, <<"cleaner", "extractor">>,
     <<"cleaner", "extractor", "grammar">>, <<"cleaner", "extractor", "grammar", "fallback">>}

EmbeddedStatus == {"Found embedded JSON and formatted it."}
GrammarStatus == {"Converted successfully.", "Converted with note(s)."}
PlainStatus == {"Input was JSON. Pretty-printed."}
FailureStatus == {"Parse error at byte", "Error"}

\* C7: the steps of a run are cleaner, extractor, grammar decoder, fallback in
\* that order, each at most once; without cleanup the first two never run; on
\* an extractor miss the decoder runs from offset 0 with the lenient setting of
\* the run; the fallback runs only after the decoder raised ParseError; a run
\* on non-empty text ends in one of the four outcomes.
C7_StrategyOrder ==
    ncalls > 0 =>
        /\ steps \in StepOrders
        /\ ~cleanup_var => ~Ran("cleaner") /\ ~Ran("extractor")
        /\ (raw # <<>> /\ (~cleanup_var \/ ~tidy_text_and_find_json(raw).found)) =>
                Ran("grammar")
        /\ Ran("grammar") =>
                /\ call.fn = "php_unserialize"
                /\ call.at = 0
                /\ call.lenient = lenient_var
                /\ LENIENT_STRING_TERMINATOR = lenient_var
        /\ Ran("fallback") => call.res.kind = "ParseError"
        /\ Strip(input_text, PySpace) # <<>> =>
                /\ status \in EmbeddedStatus \cup GrammarStatus \cup PlainStatus
                                \cup FailureStatus
                /\ status \in EmbeddedStatus <=> steps = <<"cleaner", "extractor">>
                /\ status \in GrammarStatus =>
                        steps[Len(steps)] = "grammar" /\ call.res.kind = "ok"
                /\ status \in PlainStatus => steps[Len(steps)] = "fallback"
                /\ status \in FailureStatus <=> output.kind = "error"

\* all four steps ran, under the lenient setting of the run
C7_Witness ==
    /\ steps = <<"cleaner", "extractor", "grammar", "fallback">>
    /\ lenient_var
    /\ call.lenient
    /\ ~call.entry_L
    /\ status = "Input was JSON. Pretty-printed."

\* C8: when the grammar decoder raised ParseError and the JSON parse of the
\* noise-stripped text succeeds, the run shows that JSON value with the
\* plain-JSON status, no error and no diagnostics.
C8_PlainJsonAfterParseError ==
    (Ran("grammar") /\ call.res.kind = "ParseError"
        /\ json_loads(strip_leading_noise(raw)).ok) =>
            /\ status = "Input was JSON. Pretty-printed."
            /\ output = [kind |-> "json",
                         value |-> json_loads(strip_leading_noise(raw)).val]
            /\ diag = <<>>

\* {"a":1} after leading noise, cleanup off
C8_Witness ==
    /\ ~cleanup_var
    /\ raw = <<"x", " ">> \o T_Obj
    /\ call.res.kind = "ParseError"
    /\ status = "Input was JSON. Pretty-printed."
    /\ output = [kind |-> "json",
                 value |-> <<"dict", <<<<"str", <<"a">>>>>>, <<<<"int", 1>>>>>>]

\* the last call parsed a container a:<count>:{...}
ContainerParsed ==
    /\ call.fn = "_parse_value"
    /\ call.res.kind = "ok"
    /\ PySlice(Encode(raw), call.at, call.at + 2) = <<"a", ":">>

\* the (key, value) pairs that call parsed, in parse order
PairsParsed ==
    LET b == Encode(raw)
        c == _read_until(b, call.at + 2, ":", <<>>)
    IN  ParsePairs(b, c.pos + 1, PyInt(c.val).v, <<>>, call.lenient, <<>>, 1).val

KeysAreRange(pairs) == \A n \in 1..Len(pairs) : pairs[n][1] = <<"int", n - 1>>
ValuesOf(pairs) == [n \in 1..Len(pairs) |-> pairs[n][2]]

\* C9 as stated: for every count, 0 included, a parsed container is the List
\* of its values exactly when its keys are the integers 0..count-1 in order,
\* and a Map otherwise.
C9_ListIffKeysAreRange ==
    ContainerParsed =>
        /\ call.res.val = <<"list", ValuesOf(PairsParsed)>> <=> KeysAreRange(PairsParsed)
        /\ ~KeysAreRange(PairsParsed) => call.res.val[1] = "dict"

\* C9: a container parsed with at least one pair is the List of its values
\* exactly when its keys are the integers 0..count-1 in order, and a Map
\* otherwise; a container parsed with no pair is the empty Map.
C9_ListIffKeysAreRangeAndSome ==
    ContainerParsed =>
        IF PairsParsed = <<>>
        THEN call.res.val = <<"dict", <<>>, <<>>>>
        ELSE /\ call.res.val = <<"list", ValuesOf(PairsParsed)>> <=> KeysAreRange(PairsParsed)
             /\ ~KeysAreRange(PairsParsed) => call.res.val[1] = "dict"

\* a:0:{} parsed to the empty Map
C9_Witness ==
    /\ ContainerParsed
    /\ raw = T_Empty
    /\ call.res.val = <<"dict", <<>>, <<>>>>

\* the places of key k among the parsed pairs
PlacesOf(pairs, k) == {n \in 1..Len(pairs) : pairs[n][1] = k}
FirstOf(pairs, k) == CHOOSE n \in PlacesOf(pairs, k) : \A m \in PlacesOf(pairs, k) : n <= m
LastOf(pairs, k) == CHOOSE n \in PlacesOf(pairs, k) : \A m \in PlacesOf(pairs, k) : n >= m

\* C10: a container whose keys are integers but not 0,1,...,count-1 in order
\* is a Map keyed by those integers, its entries in parse order.
C10_IntegerKeysOffRangeGiveMap ==
    (/\ ContainerParsed
     /\ PairsParsed # <<>>
     /\ \A n \in 1..Len(PairsParsed) : PairsParsed[n][1][1] = "int"
     /\ ~KeysAreRange(PairsParsed)) =>
        LET pairs == PairsParsed
            keys == call.res.val[2]
            vals == call.res.val[3]
        IN  /\ call.res.val[1] = "dict"
            /\ {keys[n] : n \in 1..Len(keys)} = {pairs[n][1] : n \in 1..Len(pairs)}
            /\ \A m, n \in 1..Len(keys) :
                    m < n => FirstOf(pairs, keys[m]) < FirstOf(pairs, keys[n])
            /\ \A n \in 1..Len(keys) : vals[n] = pairs[LastOf(pairs, keys[n])][2]

\* keys 1 then 0
C10_Witness ==
    /\ ContainerParsed
    /\ raw = T_Swap
    /\ call.res.val = <<"dict", <<<<"int", 1>>, <<"int", 0>>>>, <<<<"null">>, <<"null">>>>>>

\* C11: in a container decoded as a Map each distinct key of the input appears
\* exactly once, the entries stand in the order of the first occurrence of
\* their keys, and the value of a key is the value of its last occurrence.
C11_MapFirstPlaceLastValue ==
    (ContainerParsed /\ call.res.val[1] = "dict") =>
        LET pairs == PairsParsed
            keys == call.res.val[2]
            vals == call.res.val[3]
        IN  /\ Len(vals) = Len(keys)
            /\ \A m, n \in 1..Len(keys) : keys[m] = keys[n] => m = n
            /\ \A n \in 1..Len(pairs) : \E m \in 1..Len(keys) : keys[m] = pairs[n][1]
            /\ \A m \in 1..Len(keys) : PlacesOf(pairs, keys[m]) # {}
            /\ \A m, n \in 1..Len(keys) :
                    m < n => FirstOf(pairs, keys[m]) < FirstOf(pairs, keys[n])
            /\ \A n \in 1..Len(keys) : vals[n] = pairs[LastOf(pairs, keys[n])][2]

\* keys "a", "b", "a" with values 1, 2, 3: "a" first with 3, then "b" with 2
C11_Witness ==
    /\ ContainerParsed
    /\ raw = T_Dup
    /\ call.res.val = <<"dict", <<<<"str", <<"a">>>>, <<"str", <<"b">>>>>>,
                       <<<<"int", 3>>, <<"int", 2>>>>>>

\* the byte at offset k of b; there is none before offset 0 or from len(b) on
ByteAt(b, k) == IF k >= 0 /\ k < Len(b) THEN b[k + 1] ELSE "none"

\* the offset after a terminator (a double quote, then whitespace of b' \t\r\n',
\* then ';') whose quote is the byte at offset e, or -1 when none stands there
TerminatorEnd(b, e) ==
    LET semis == {k \in (e + 1)..(Len(b) - 1) :
                      /\ b[k + 1] = ";"
                      /\ \A m \in (e + 1)..(k - 1) : b[m + 1] \in TermSpace}
    IN  IF ByteAt(b, e) = "\"" /\ semis # {} THEN (CHOOSE k \in semis : TRUE) + 1 ELSE -1

\* the first terminator whose quote is at or after offset start: its quote
FirstTerminator(b, start) ==
    LET quotes == {k \in start..(Len(b) - 1) : TerminatorEnd(b, k) # -1}
    IN  IF quotes = {} THEN -1 ELSE CHOOSE k \in quotes : \A m \in quotes : k <= m

\* the last call was the s: production, entered after the tag at offset call.at
\* of the bytes of raw: the ':' that ends its length field, the declared length
\* and the offset after the opening quote
HeadColon ==
    LET b == Encode(raw)
        colons == {k \in call.at..(Len(b) - 1) : b[k + 1] = ":"}
    IN  IF colons = {} THEN -1 ELSE CHOOSE k \in colons : \A m \in colons : k <= m
Declared == PyInt(SubSeq(Encode(raw), call.at + 1, HeadColon))
PayloadStart == HeadColon + 2
StringHeaded ==
    /\ call.fn = "_parse_string"
    /\ HeadColon # -1
    /\ Declared.ok
    /\ ByteAt(Encode(raw), HeadColon + 1) = "\""

\* C12: without leniency an s: production returns only when exactly the
\* declared number of payload bytes is followed by a quote, whitespace and ';',
\* and then returns those bytes and the offset after the ';'; with fewer bytes
\* left than declared it raises ParseError at the offset after the opening
\* quote, with no terminator at the declared end it raises ParseError, and it
\* records no diagnostic.
C12_StrictStringIsExact ==
    (StringHeaded /\ ~call.lenient) =>
        LET b == Encode(raw)
            n == Declared.v
            start == PayloadStart
        IN  /\ call.res.kind = "ok" =>
                    /\ n >= 0
                    /\ start + n <= Len(b)
                    /\ TerminatorEnd(b, start + n) # -1
                    /\ call.res.pos = TerminatorEnd(b, start + n)
                    /\ call.res.val = <<"str", _decode_bytes(SubSeq(b, start + 1, start + n))>>
            /\ Len(b) - start < n =>
                    call.res.kind = "ParseError" /\ call.res.pos = start
            /\ (Len(b) - start >= n /\ TerminatorEnd(b, start + n) = -1) =>
                    call.res.kind = "ParseError"
            /\ call.res.w = <<>>

\* C13: with leniency, an s: production that declares more bytes than are left
\* after its opening quote, when a terminator follows, returns the bytes
\* between the opening quote and the quote of the first terminator and the
\* offset after that terminator's ';', and records exactly one
\* string_length_repair_short note with the declared length and the byte
\* length of the returned payload.
C13_LenientRepairsShort ==
    (/\ StringHeaded
     /\ call.lenient
     /\ Declared.v > Len(Encode(raw)) - PayloadStart
     /\ FirstTerminator(Encode(raw), PayloadStart) # -1) =>
        LET b == Encode(raw)
            start == PayloadStart
            quote == FirstTerminator(b, start)
        IN  /\ call.res.kind = "ok"
            /\ call.res.val = <<"str", _decode_bytes(SubSeq(b, start + 1, quote))>>
            /\ call.res.pos = TerminatorEnd(b, quote)
            /\ Len(call.res.w) = 1
            /\ call.res.w[1].kind = "string_length_repair_short"
            /\ call.res.w[1].declared_length = Declared.v
            /\ call.res.w[1].actual_length = quote - start

\* s:9:"é"; gives "é", declared 9, actual 2 bytes
C13_Witness ==
    /\ StringHeaded
    /\ call.lenient
    /\ raw = T_WideShort
    /\ call.res.val = <<"str", <<"U+00E9">>>>
    /\ call.res.pos = 9
    /\ call.res.w = <<[kind |-> "string_length_repair_short", at_byte |-> 5,
                      declared_length |-> 9, actual_length |-> 2]>>

\* C14: with leniency, an s: production with at least the declared number of
\* bytes left but no terminator at the declared end, when a terminator follows
\* the opening quote, returns the bytes up to the quote of the first such
\* terminator and the offset after its ';', and records a
\* string_length_repair_mismatch note with the declared and the actual byte
\* length exactly when the two differ.
C14_LenientRepairsMismatch ==
    (/\ StringHeaded
     /\ call.lenient
     /\ Len(Encode(raw)) - PayloadStart >= Declared.v
     /\ TerminatorEnd(Encode(raw), PayloadStart + Declared.v) = -1
     /\ FirstTerminator(Encode(raw), PayloadStart) # -1) =>
        LET b == Encode(raw)
            start == PayloadStart
            quote == FirstTerminator(b, start)
        IN  /\ call.res.kind = "ok"
            /\ call.res.val = <<"str", _decode_bytes(SubSeq(b, start + 1, quote))>>
            /\ call.res.pos = TerminatorEnd(b, quote)
            /\ IF quote - start # Declared.v
               THEN /\ Len(call.res.w) = 1
                    /\ call.res.w[1].kind = "string_length_repair_mismatch"
                    /\ call.res.w[1].declared_length = Declared.v
                    /\ call.res.w[1].actual_length = quote - start
               ELSE call.res.w = <<>>

\* the two-byte lead tags of the value productions
ValueTags ==
    {<<"s", ":">>, <<"i", ":">>, <<"d", ":">>, <<"b", ":">>, <<"N", ";">>, <<"a", ":">>}

\* C15: the value production called at an offset whose two lead bytes are none
\* of the six tags raises ParseError with that offset, with and without
\* leniency, and records no diagnostic.
C15_UnsupportedTagIsFatal ==
    (/\ call.fn = "_parse_value"
     /\ <<ByteAt(Encode(raw), call.at), ByteAt(Encode(raw), call.at + 1)>> \notin ValueTags) =>
        /\ call.res.kind = "ParseError"
        /\ call.res.pos = call.at
        /\ call.res.msg = "Unsupported value type"
        /\ call.res.w = <<>>

\* the object tag of a:1:{i:0;O:1;} at offset 9, with leniency
C15_Witness ==
    /\ call.fn = "_parse_value"
    /\ call.lenient
    /\ raw = T_Object
    /\ call.at = 9
    /\ call.res.kind = "ParseError"
    /\ call.res.pos = 9

\* ASCII whitespace
AsciiSpace == {" ", "\t", "\n", "\r", "\f", "VT"}

\* the trailing_data notes among the notes w
TrailingNotes(w) == SelectSeq(w, LAMBDA note : note.kind = "trailing_data")

TokenEnd(s, p) ==
    LET d == DigitsEnd(s, p + 2)
        e == d + 2 + DecVal(PySlice(s, p + 2, d))
    IN  IF /\ StartsWith(s, p, <<"s", ":">>)
           /\ d > p + 2
           /\ StartsWith(s, d, <<":", "\"">>)
           /\ e + 2 <= Len(s)
           /\ StartsWith(s, e, <<"\"", ";">>)
        THEN e + 2
        ELSE -1

\* the tokens of s
TokensOf(s) == {PySlice(s, p, TokenEnd(s, p)) : p \in {q \in 0..Len(s) : TokenEnd(s, q) # -1}}

\* part stands somewhere in s
Occurs(part, s) == \E q \in 0..(Len(s) - Len(part)) : StartsWith(s, q, part)

\* C17: every s:<len>:"<content>"; token of the text handed to the cleaner
\* stands unchanged in the cleaner's output.
C17_TokensSurviveCleaning ==
    call.fn = "safe_cleanup_shell_only" =>
        \A token \in TokensOf(input_text) : Occurs(token, raw)

\* the text the extractor searches: stripped, line ends unified, entities
\* unescaped, zero-width characters and leading noise removed
Tidied(s0) ==
    strip_leading_noise(
        SelectSeq(html_unescape(Replace(Replace(Strip(s0, PySpace), <<"\r", "\n">>, <<"\n">>),
                                        <<"\r">>, <<"\n">>)),
                  LAMBDA c : c \notin ZeroWidth))

\* the first offset from start at which as many close_ch as open_ch have been
\* seen since start, or -1
SpanEnd(s, start, open_ch, close_ch) ==
    LET seen(ch, i) == Cardinality({k \in start..i : s[k + 1] = ch})
        ends == {i \in start..(Len(s) - 1) : seen(open_ch, i) = seen(close_ch, i)}
    IN  IF ends = {} THEN -1 ELSE CHOOSE i \in ends : \A m \in ends : i <= m

\* the candidate that starts at start
Span(s, start, open_ch, close_ch) == PySlice(s, start, SpanEnd(s, start, open_ch, close_ch) + 1)

\* a candidate parsed strictly, else after the loose repair
Parsed(candidate) ==
    IF json_loads(candidate).ok THEN Some(json_dumps(json_loads(candidate).val))
    ELSE _loose_json_fixes(candidate)

\* the start offsets of open_ch whose candidate parses
GoodStarts(s, open_ch, close_ch) ==
    {k \in 0..(Len(s) - 1) :
        /\ s[k + 1] = open_ch
        /\ SpanEnd(s, k, open_ch, close_ch) # -1
        /\ Parsed(Span(s, k, open_ch, close_ch)).found}

FirstGood(s, open_ch, close_ch) ==
    Parsed(Span(s, CHOOSE k \in GoodStarts(s, open_ch, close_ch) :
                       \A m \in GoodStarts(s, open_ch, close_ch) : k <= m,
                open_ch, close_ch))

\* C18: the extractor returns the parse of the leftmost '{' candidate that
\* parses, a candidate being the span from a start to where the depth first
\* returns to zero; if no '{' candidate parses, that of the leftmost '['
\* candidate that parses; and nothing only if no candidate of either kind
\* parses.
C18_FirstParsedCandidateWins ==
    call.fn = "tidy_text_and_find_json" =>
        LET s == Tidied(input_text)
        IN  call.res = IF GoodStarts(s, "{", "}") # {} THEN FirstGood(s, "{", "}")
                       ELSE IF GoodStarts(s, "[", "]") # {} THEN FirstGood(s, "[", "]")
                       ELSE None

\* [1] {x} {"a":1}: the second object, although an array that parses and an
\* object that does not stand before it
C18_Witness ==
    /\ call.fn = "tidy_text_and_find_json"
    /\ input_text = E_ArrObj
    /\ GoodStarts(Tidied(input_text), "{", "}") = {8}
    /\ GoodStarts(Tidied(input_text), "[", "]") = {0}
    /\ call.res = Some(<<"{", "\"", "a", "\"", ":", " ", "1", "}">>)

\* the last call was the value production at the tag a: of a container whose
\* count field is an integer followed by '{'
CountColon ==
    LET b == Encode(raw)
        colons == {k \in (call.at + 2)..(Len(b) - 1) : b[k + 1] = ":"}
    IN  IF colons = {} THEN -1 ELSE CHOOSE k \in colons : \A m \in colons : k <= m
Count == PyInt(SubSeq(Encode(raw), call.at + 3, CountColon))
ContainerHeaded ==
    /\ call.fn = "_parse_value"
    /\ <<ByteAt(Encode(raw), call.at), ByteAt(Encode(raw), call.at + 1)>> = <<"a", ":">>
    /\ CountColon # -1
    /\ Count.ok
    /\ ByteAt(Encode(raw), CountColon + 1) = "{"

\* the first m key/value pairs after the '{'
PairsFrom(m) == ParsePairs(Encode(raw), CountColon + 2, m, <<>>, call.lenient, <<>>, 1)

\* how many key/value pairs stand after the '{'
PairsPresent == Cardinality({m \in 1..Len(Encode(raw)) : PairsFrom(m).kind = "ok"})

\* C19: a container returns only if exactly the declared number of key/value
\* pairs was parsed and '}' stands right after the last pair, and then returns
\* the offset after the '}'; with a number of pairs other than declared or
\* without the '}' it raises ParseError, with a lead tag other than i: and s:
\* where a key is due it raises ParseError there, with and without leniency.
C19_ContainerIsExact ==
    ContainerHeaded =>
        LET b == Encode(raw)
            last == PairsFrom(PairsPresent).pos
        IN  /\ call.res.kind = "ok" =>
                    /\ Len(PairsParsed) = Count.v
                    /\ PairsPresent = Count.v
                    /\ ByteAt(b, last) = "}"
                    /\ call.res.pos = last + 1
            /\ (PairsPresent # Count.v \/ ByteAt(b, last) # "}") =>
                    call.res.kind = "ParseError"
            /\ (/\ PairsPresent < Count.v
                /\ <<ByteAt(b, last), ByteAt(b, last + 1)>> \notin {<<"i", ":">>, <<"s", ":">>}) =>
                    /\ call.res.kind = "ParseError"
                    /\ call.res.pos = last
                    /\ call.res.msg = "Unsupported key type"

\* the two lead bytes at the offset of the last call
LeadTag == <<ByteAt(Encode(raw), call.at), ByteAt(Encode(raw), call.at + 1)>>

\* the offset of the first ';' after the tag, or -1
FirstSemi ==
    LET b == Encode(raw)
        semis == {k \in (call.at + 2)..(Len(b) - 1) : b[k + 1] = ";"}
    IN  IF semis = {} THEN -1 ELSE CHOOSE k \in semis : \A m \in semis : k <= m

\* the bytes between the tag and that ';'
IntBody == SubSeq(Encode(raw), call.at + 3, FirstSemi)

AllDigits(s) == s # <<>> /\ \A k \in 1..Len(s) : s[k] \in Digits

\* an ASCII integer: digits after an optional sign, whitespace around it allowed
AsciiInteger(s) ==
    LET t == Strip(s, AsciiSpace)
    IN  AllDigits(IF t # <<>> /\ t[1] \in {"+", "-"} THEN Tail(t) ELSE t)

\* C20: at a value offset i, N; gives Null and the offset i+2; b:0; and b:1;
\* give false and true and the offset i+4, and b: before any other two bytes
\* raises ParseError; i:<digits>; gives that integer and the offset after the
\* first ';' behind the tag, and a body that is no ASCII integer, or no ';',
\* raises ParseError.
C20_FixedFormPrimitives ==
    call.fn = "_parse_value" =>
        LET b == Encode(raw)
            i == call.at
            two == <<ByteAt(b, i + 2), ByteAt(b, i + 3)>>
        IN  /\ LeadTag = <<"N", ";">> =>
                    /\ call.res.kind = "ok"
                    /\ call.res.val = <<"null">>
                    /\ call.res.pos = i + 2
            /\ LeadTag = <<"b", ":">> =>
                    IF two \in {<<"0", ";">>, <<"1", ";">>}
                    THEN /\ call.res.kind = "ok"
                         /\ call.res.val = <<"bool", two[1] = "1">>
                         /\ call.res.pos = i + 4
                    ELSE call.res.kind = "ParseError"
            /\ LeadTag = <<"i", ":">> =>
                    /\ FirstSemi = -1 => call.res.kind = "ParseError"
                    /\ (FirstSemi # -1 /\ AllDigits(IntBody)) =>
                            /\ call.res.kind = "ok"
                            /\ call.res.val = <<"int", DecVal(IntBody)>>
                            /\ call.res.pos = FirstSemi + 1
                    /\ (FirstSemi # -1 /\ ~AsciiInteger(IntBody)) =>
                            call.res.kind = "ParseError"

\* C21: an s: production whose declared length n >= 0 is the number of bytes
\* between its opening quote and a terminator returns, with and without
\* leniency, the string whose UTF-8 bytes are exactly those n bytes and the
\* offset after the ';', and records no diagnostic.
C21_ExactStringDecodes ==
    (/\ StringHeaded
     /\ Declared.v >= 0
     /\ TerminatorEnd(Encode(raw), PayloadStart + Declared.v) # -1) =>
        LET b == Encode(raw)
            start == PayloadStart
            n == Declared.v
        IN  /\ call.res.kind = "ok"
            /\ call.res.val[1] = "str"
            /\ Encode(call.res.val[2]) = SubSeq(b, start + 1, start + n)
            /\ call.res.pos = TerminatorEnd(b, start + n)
            /\ call.res.w = <<>>

\* s:2:"é"; with leniency: one character from two bytes, no note
C21_Witness ==
    /\ StringHeaded
    /\ call.lenient
    /\ raw = T_Wide
    /\ call.res.val = <<"str", <<"U+00E9">>>>
    /\ call.res.pos = 9
    /\ call.res.w = <<>>

\* notes an enclosing call may have recorded before a string is parsed
EarlierNotes ==
    {<<>>,
     <<[kind |-> "string_length_repair_mismatch", at_byte |-> 0, declared_length |-> 9,
        actual_length |-> 1]>>}

\* C22: with leniency, an s: production that fails without leniency and after
\* whose opening quote no terminator follows raises ParseError at the offset
\* of the failure without leniency and records nothing; the notes recorded
\* before it are as they were.
C22_FailedScanKeepsTheError ==
    (StringHeaded /\ call.lenient) =>
        LET b == Encode(raw)
            strict == _parse_string(b, call.at, FALSE, <<>>)
        IN  (strict.kind = "ParseError" /\ FirstTerminator(b, PayloadStart) = -1) =>
                /\ call.res.kind = "ParseError"
                /\ call.res.pos = strict.pos
                /\ call.res.w = <<>>
                /\ \A w0 \in EarlierNotes :
                        /\ _parse_string(b, call.at, TRUE, w0).kind = "ParseError"
                        /\ _parse_string(b, call.at, TRUE, w0).pos = strict.pos
                        /\ _parse_string(b, call.at, TRUE, w0).w = w0

\* s:1:"a" x with leniency: no ';' after the quote and the space, ParseError
\* at offset 8 as without leniency
C22_Witness ==
    /\ StringHeaded
    /\ call.lenient
    /\ raw = T_NoTerm
    /\ FirstTerminator(Encode(raw), PayloadStart) = -1
    /\ call.res.kind = "ParseError"
    /\ call.res.pos = 8
    /\ _parse_string(Encode(raw), call.at, FALSE, <<>>).pos = 8

\* the offset after a terminator (a double quote, then bytes of space, then ';')
\* whose quote is the byte at offset e, or -1 when none stands there
SpacedTerminatorEnd(b, e, space) ==
    LET semis == {k \in (e + 1)..(Len(b) - 1) :
                      /\ b[k + 1] = ";"
                      /\ \A m \in (e + 1)..(k - 1) : b[m + 1] \in space}
    IN  IF ByteAt(b, e) = "\"" /\ semis # {} THEN (CHOOSE k \in semis : TRUE) + 1 ELSE -1

\* the last call was the repair scan from offset call.at with lookahead
\* call.res.bound: the quotes it may accept when space is the whitespace allowed
\* between the quote and the ';'
Closings(space) ==
    LET b == Encode(raw)
    IN  {k \in call.at..(Len(b) - 1) :
             /\ k < call.at + call.res.bound
             /\ SpacedTerminatorEnd(b, k, space) # -1}

\* the scan returned the first of those quotes, the bytes before it and the
\* offset after its ';', or nothing when there is none
ScanContract(space) ==
    LET b == Encode(raw)
        good == Closings(space)
        r == call.res.scan
    IN  IF good = {} THEN ~r.found
        ELSE LET k == CHOOSE q \in good : \A m \in good : q <= m
             IN  /\ r.found
                 /\ r.sbytes = SubSeq(b, call.at + 1, k)
                 /\ r.pos = SpacedTerminatorEnd(b, k, space)

\* C23 as stated: the repair scan from start with lookahead L returns the first
\* quote k >= start, k < start + L, k < len(b), that is followed by ASCII
\* whitespace (b' \t\n\r\x0b\f') and ';', with the bytes b[start:k] and the offset
\* after the ';', and reports no closing when there is no such quote.
C23_ScanSkipsAsciiWhitespace ==
    call.fn = "_lenient_scan_close" => ScanContract(AsciiSpace)

\* C23 amended: the same with only space, tab, CR and LF allowed between the
\* quote and the ';'; a quote followed by a form feed or a vertical tab is
\* passed over.
C23_ScanReturnsFirstTerminator ==
    call.fn = "_lenient_scan_close" => ScanContract(TermSpace)

\* the scan returned the first of two closings within a lookahead shorter than
\* the text
C23_Witness ==
    /\ call.fn = "_lenient_scan_close"
    /\ raw = T_ShortTwo
    /\ call.at = 5
    /\ call.res.bound = 3
    /\ Closings(TermSpace) = {6}
    /\ call.res.scan = [found |-> TRUE, sbytes |-> <<"a">>, pos |-> 8]
RECURSIVE FirstRaise(_, _, _, _, _)
\* what the first of the n key and value productions from offset i that does
\* not return raises, when each starts where the one before it ended; an ok
\* result when all n pairs return
FirstRaise(b, i, n, lenient, w) ==
    IF n <= 0 THEN Ok(<<>>, i, w)
    ELSE Bind(_parse_key(b, i, lenient, w), LAMBDA k :
         IF k.kind # "ok" THEN k
         ELSE Bind(_parse_value(b, k.pos, lenient, k.w, 2), LAMBDA v :
              IF v.kind # "ok" THEN v
              ELSE FirstRaise(b, v.pos, n - 1, lenient, v.w)))

\* the last call was php_unserialize: what _parse_value at offset 0 gives
RootValue == _parse_value(Encode(raw), 0, call.lenient, <<>>, 1)

\* C24: a ParseError raised by a key or value production inside a container
\* is what the container production raises, with the same message and offset,
\* at every offset where a container stands (so through every enclosing
\* container), and what _parse_value raises at offset 0 is what php_unserialize
\* raises.
C24_NestedErrorReachesTheCaller ==
    /\ ContainerHeaded =>
           LET e == FirstRaise(Encode(raw), CountColon + 2, Count.v, call.lenient, <<>>)
           IN  e.kind = "ParseError" =>
                   /\ call.res.kind = "ParseError"
                   /\ call.res.msg = e.msg
                   /\ call.res.pos = e.pos
    /\ (call.fn = "php_unserialize" /\ RootValue.kind = "ParseError") =>
           /\ call.res.kind = "ParseError"
           /\ call.res.msg = RootValue.msg
           /\ call.res.pos = RootValue.pos

\* php_unserialize raised the error of the O: value two containers deep
C24_Witness ==
    /\ call.fn = "php_unserialize"
    /\ raw = T_Deep
    /\ _parse_value(Encode(raw), 18, call.lenient, <<>>, 3).kind = "ParseError"
    /\ _parse_value(Encode(raw), 18, call.lenient, <<>>, 3).pos = 18
    /\ FirstRaise(Encode(raw), 14, 1, call.lenient, <<>>).pos = 18
    /\ call.res.kind = "ParseError"
    /\ call.res.msg = "Unsupported value type"
    /\ call.res.pos = 18
\* what the production of the last call gives at the same offset of the same
\* bytes when LENIENT_STRING_TERMINATOR is lenient and WARNINGS is empty
Production(lenient) ==
    LET b == Encode(raw)
    IN  CASE call.fn = "_parse_int" -> _parse_int(b, call.at, <<>>)
          [] call.fn = "_parse_float" -> _parse_float(b, call.at, <<>>)
          [] call.fn = "_parse_bool" -> _parse_bool(b, call.at, <<>>)
          [] call.fn = "_parse_string" -> _parse_string(b, call.at, lenient, <<>>)
          [] call.fn = "_parse_key" -> _parse_key(b, call.at, lenient, <<>>)
          [] call.fn = "_parse_value" -> _parse_value(b, call.at, lenient, <<>>, 1)
          [] call.fn = "php_unserialize" -> php_unserialize(raw, lenient, <<>>)

RepairKinds == {"string_length_repair_short", "string_length_repair_mismatch"}

\* C25: where a production (or php_unserialize) returns without leniency, the
\* call returned the same value, the same offset and the same diagnostics
\* whatever its leniency, and none of the diagnostics is a repair.
C25_LeniencyIsMonotone ==
    (call.fn \in Productions \cup {"php_unserialize"} /\ Production(FALSE).kind = "ok") =>
        /\ call.res.kind = "ok"
        /\ call.res.val = Production(FALSE).val
        /\ call.res.pos = Production(FALSE).pos
        /\ call.res.w = Production(FALSE).w
        /\ \A k \in 1..Len(call.res.w) : call.res.w[k].kind \notin RepairKinds

\* a lenient call returned the declared three bytes of a string although a
\* terminator stands inside them
C25_Witness ==
    /\ StringHeaded
    /\ call.lenient
    /\ raw = T_Inner
    /\ Production(FALSE).kind = "ok"
    /\ FirstTerminator(Encode(raw), PayloadStart) < PayloadStart + Declared.v
    /\ call.res.kind = "ok"
    /\ call.res.val = <<"str", <<"a", "\"", ";">>>>
    /\ call.res.pos = 10
    /\ call.res.w = <<>>
\* C26: every ParseError a production or php_unserialize raises carries an
\* offset between 0 and the number of bytes of the input, with either leniency.
C26_ErrorOffsetInBounds ==
    (call.fn \in Productions \cup {"php_unserialize"} /\ call.res.kind = "ParseError") =>
        /\ 0 <= call.res.pos
        /\ call.res.pos <= Len(Encode(raw))
\* the last call was a lenient s: production that returned a payload the
\* production raises ParseError for without leniency: the payload of the scan
Scanned ==
    /\ StringHeaded
    /\ call.lenient
    /\ call.res.kind = "ok"
    /\ _parse_string(Encode(raw), call.at, FALSE, <<>>).kind = "ParseError"

\* note is a repair diagnostic of the string of the last call with a noted
\* length other than the declared one, and a smaller one when its kind is short
RepairOfTheString(note) ==
    /\ note.kind \in RepairKinds
    /\ note.at_byte = PayloadStart
    /\ note.declared_length = Declared.v
    /\ note.actual_length # note.declared_length
    /\ note.kind = "string_length_repair_short" => note.actual_length < note.declared_length

\* C27: a lenient s: production that returns the payload of the scan adds
\* exactly one diagnostic to those recorded before it, a repair of that string
\* whose actual_length differs from its declared_length and, for
\* string_length_repair_short, is smaller.
C27_NoSilentRepair ==
    Scanned =>
        /\ Len(call.res.w) = 1
        /\ RepairOfTheString(call.res.w[1])
        /\ \A w0 \in EarlierNotes :
               LET r == _parse_string(Encode(raw), call.at, TRUE, w0)
               IN  /\ Len(r.w) = Len(w0) + 1
                   /\ SubSeq(r.w, 1, Len(w0)) = w0
                   /\ RepairOfTheString(r.w[Len(r.w)])

\* a lenient call took the one byte before the scanned closing of a string
\* declared with no bytes, and noted the mismatch
C27_Witness ==
    /\ Scanned
    /\ Declared.v = 0
    /\ FirstTerminator(Encode(raw), PayloadStart) = PayloadStart + 1
    /\ call.res.w = <<RepairMismatch(PayloadStart, 0, 1)>>
\* the places of the repair diagnostics and of the trailing_data diagnostics in w
RepairPlaces(w) == {k \in 1..Len(w) : w[k].kind \in RepairKinds}
TrailingPlaces(w) == {k \in 1..Len(w) : w[k].kind = "trailing_data"}

\* C28: in the diagnostics of a php_unserialize call that returned, the repair
\* diagnostics stand in strictly increasing order of at_byte, at most one
\* diagnostic is trailing_data, and that one is the last entry with an at_byte
\* not lower than that of any repair diagnostic.
C28_DiagnosticsAreOrdered ==
    (call.fn = "php_unserialize" /\ call.res.kind = "ok") =>
        LET w == call.res.w
        IN  /\ \A j, k \in RepairPlaces(w) : j < k => w[j].at_byte < w[k].at_byte
            /\ Cardinality(TrailingPlaces(w)) <= 1
            /\ \A t \in TrailingPlaces(w) :
                   /\ t = Len(w)
                   /\ \A j \in RepairPlaces(w) : w[j].at_byte <= w[t].at_byte
\* the Map v with every value replaced by null
Shallow(v) == <<"dict", v[2], [k \in 1..Len(v[2]) |-> <<"null">>]>>

\* the member names a reader of the JSON text rendered for the Map v finds
RenderedNames(v) == json_loads(json_dumps(Shallow(v))).val[2]

RECURSIVE NamesDistinct(_)
\* every Map in v renders with as many member names as it has entries
NamesDistinct(v) ==
    CASE v[1] = "dict" -> /\ Len(RenderedNames(v)) = Len(v[2])
                          /\ \A k \in 1..Len(v[3]) : NamesDistinct(v[3][k])
      [] v[1] = "list" -> \A k \in 1..Len(v[2]) : NamesDistinct(v[2][k])
      [] OTHER -> TRUE

\* the last run of the handler rendered what the grammar decoder returned
ShowsDecoded ==
    /\ Ran("grammar")
    /\ status \in {"Converted successfully.", "Converted with note(s)."}
    /\ output.kind = "json"

\* C29: the JSON object rendered for a decoded Map has pairwise distinct
\* member names, also when the Map holds the integer key n and the string key
\* spelling n.
C29_MemberNamesAreDistinct ==
    ShowsDecoded => NamesDistinct(output.value)

\* what the grammar decoder gives for the text of the widget with the
\* leniency of the last run and no cleanup
Uncleaned == php_unserialize(Strip(input_text, PySpace), lenient_var, <<>>)

\* C30: where the grammar decoder returns the text of the widget with no
\* diagnostics, a run with cleanup shows the same value with no diagnostics.
C30_CleanupKeepsTheValue ==
    (ncalls > 0 /\ cleanup_var /\ Uncleaned.kind = "ok" /\ Uncleaned.w = <<>>) =>
        /\ status = "Converted successfully."
        /\ output = Rendered(Uncleaned.val)
        /\ diag = <<>>
====
